---------------------------- MODULE Spec2Model ----------------------------
(***************************************************************************)
(* SIGPRINT Enhanced Firmware v3.0 (src/main_enhanced.cpp): the multi-band *)
(* lock-in demodulator, the SIGPRINT composer and the main loop that       *)
(* drives them.                                                            *)
(*                                                                         *)
(* Numbers.  The firmware computes in IEEE-754 single precision.  Here a   *)
(* float is a fixed-point integer:                                         *)
(*   amplitudes, I/Q estimates, samples (uV)   units of 1/FP     (0.001)   *)
(*   sin/cos values, band coherence            units of 1/TS     (0.001)   *)
(*   filter coefficients                       units of 1/AS     (0.0001)  *)
(*   global coherence                          units of 1/(100*TS)         *)
(*   angles (phases)                           units of 2*pi/GRID          *)
(* A quotient is compared by cross-multiplication (exactly); a quotient    *)
(* that is rounded by lroundf is rounded half away from zero, exactly.     *)
(* Float rounding (relative 6e-8) is not modelled, so an input that sits   *)
(* exactly on a threshold is decided here by real arithmetic.              *)
(***************************************************************************)
EXTENDS Integers, Sequences, FiniteSets, TLC

(***************************************************************************)
(* Program constants                                                       *)
(***************************************************************************)
CHANNEL_COUNT == 8
BAND_COUNT == 5
SAMPLE_RATE_HZ == 250
HISTORY_WINDOW == 64
WINDOW == SAMPLE_RATE_HZ

Channels == 0 .. (CHANNEL_COUNT - 1)
Bands == 0 .. (BAND_COUNT - 1)

\* fixed-point scales (see the header)
FP == 10 * 100
TS == 10 * 100
AS == 100 * 100
GRID == 2 * SAMPLE_RATE_HZ

\* kBands[band].center_hz, in half hertz (2.5 Hz = 5)
CenterHalfHz == <<5, 12, 20, 40, 80>>
\* kBands[band].weight, in hundredths
Weight100 == <<15, 20, 30, 20, 15>>

(***************************************************************************)
(* Arithmetic helpers                                                      *)
(***************************************************************************)
Abs(x) == IF x < 0 THEN -x ELSE x

Max2(a, b) == IF a < b THEN b ELSE a

Min2(a, b) == IF b < a THEN b ELSE a

\* clampValue(value, min_v, max_v) = max(min_v, min(max_v, value))
clampValue(value, min_v, max_v) == Max2(min_v, Min2(max_v, value))

RECURSIVE Pow10(_)
Pow10(k) == IF k = 0 THEN 1 ELSE 10 * Pow10(k - 1)

\* <<floor(a * m / b), (a * m) mod b>> for a >= 0, m >= 0, b > 0, by binary
\* long division on m (no intermediate exceeds 2 * b + a)
RECURSIVE MulDivQR(_, _, _)
MulDivQR(a, m, b) ==
    IF m = 0 THEN <<0, 0>>
    ELSE LET p == MulDivQR(a, m \div 2, b)
             d == <<2 * p[1] + ((2 * p[2]) \div b), (2 * p[2]) % b>>
         IN  IF m % 2 = 1
             THEN <<d[1] + ((d[2] + a) \div b), (d[2] + a) % b>>
             ELSE d

\* static_cast<int>(lroundf(a * 10^k / b)), b # 0: the nearest integer, a
\* half away from zero.  A quotient a / b of 20000 or more in magnitude is
\* returned as +-20000 * 10^k; every caller clamps to a smaller range.
LRound(a, b, k) ==
    LET sgn == IF (a < 0) = (b < 0) THEN 1 ELSE -1
        ua == Abs(a)
        ub == Abs(b)
    IN  IF ua \div 20000 >= ub THEN sgn * 20000 * Pow10(k)
        ELSE LET qr == MulDivQR(ua, Pow10(k), ub)
             IN  sgn * (qr[1] + (IF qr[2] >= ub - qr[2] THEN 1 ELSE 0))

\* a / b for b > 0, to the nearest integer
RoundDiv(a, b) == (2 * a + b) \div (2 * b)

\* floor(sqrtf(n)) for n >= 0, by bisection on [lo, hi)
RECURSIVE IsqrtIn(_, _, _)
IsqrtIn(n, lo, hi) ==
    IF hi - lo <= 1 THEN lo
    ELSE LET mid == (lo + hi) \div 2
         IN  IF mid * mid <= n THEN IsqrtIn(n, mid, hi) ELSE IsqrtIn(n, lo, mid)

\* sqrtf(n), to the nearest integer
Isqrt(n) ==
    LET f == IsqrtIn(n, 0, 46341)
    IN  IF n - f * f > f THEN f + 1 ELSE f

\* sin(2*pi*k/GRID) * TS for k = 0 .. GRID/4
SinQuarter ==
    <<
       0, 13, 25, 38, 50, 63, 75, 88, 100, 113, 125, 138, 150, 163,
       175, 187, 200, 212, 224, 236, 249, 261, 273, 285, 297, 309, 321, 333,
       345, 356, 368, 380, 391, 403, 414, 426, 437, 448, 460, 471, 482, 493,
       504, 514, 525, 536, 546, 557, 567, 578, 588, 598, 608, 618, 628, 637,
       647, 657, 666, 675, 685, 694, 703, 712, 720, 729, 738, 746, 754, 762,
       771, 778, 786, 794, 802, 809, 816, 824, 831, 838, 844, 851, 858, 864,
       870, 876, 882, 888, 894, 899, 905, 910, 915, 920, 925, 930, 934, 939,
       943, 947, 951, 955, 959, 962, 965, 969, 972, 975, 977, 980, 982, 985,
       987, 989, 990, 992, 994, 995, 996, 997, 998, 999, 999, 1000, 1000, 1000
    >>

\* the first-quadrant angle with the same |sin| as the grid angle m in
\* 0 .. GRID - 1
SinFold(m) ==
    IF m <= GRID \div 4 THEN m
    ELSE IF m <= GRID \div 2 THEN (GRID \div 2) - m
    ELSE IF m <= 3 * (GRID \div 4) THEN m - (GRID \div 2)
    ELSE GRID - m

\* the sign of sin at the grid angle m in 0 .. GRID - 1
SinSign(m) == IF m <= GRID \div 2 THEN 1 ELSE -1

\* sinf of the grid angle m in 0 .. GRID - 1
SinOf(m) == SinSign(m) * SinQuarter[SinFold(m) + 1]

\* sinf of the grid angle k (any integer)
sinf(k) == SinOf(k % GRID)

\* cosf of the grid angle k
cosf(k) == sinf(k + (GRID \div 4))

\* the largest grid angle k in lo .. hi - 1 with tan(k) <= y / x, for
\* x >= 0, y >= 0 (tan(lo) <= y / x is given)
RECURSIVE AtanFloor(_, _, _, _)
AtanFloor(y, x, lo, hi) ==
    IF hi - lo <= 1 THEN lo
    ELSE LET mid == (lo + hi) \div 2
         IN  IF sinf(mid) * x <= cosf(mid) * y
             THEN AtanFloor(y, x, mid, hi)
             ELSE AtanFloor(y, x, lo, mid)

\* |cos(k) * y - sin(k) * x|: how far the direction (x, y) is from the grid
\* angle k
AtanMiss(y, x, k) == Abs(cosf(k) * y - sinf(k) * x)

\* of the grid angles f and f + 1 around the direction (x, y), the nearer
AtanNearest(y, x, f) ==
    IF f >= GRID \div 4 THEN GRID \div 4
    ELSE IF AtanMiss(y, x, f + 1) < AtanMiss(y, x, f) THEN f + 1
    ELSE f

\* atan2f(y, x) for x >= 0, y >= 0, not both 0: the nearest grid angle in
\* 0 .. GRID/4
AtanQuadrant(y, x) == AtanNearest(y, x, AtanFloor(y, x, 0, (GRID \div 4) + 1))

\* the angle of (x, y) from the angle a of (|x|, |y|)
AtanSigned(y, x, a) ==
    IF x >= 0 /\ y >= 0 THEN a
    ELSE IF x < 0 /\ y >= 0 THEN (GRID \div 2) - a
    ELSE IF x < 0 /\ y < 0 THEN -((GRID \div 2) - a)
    ELSE -a

\* atan2f(y, x): a grid angle in -GRID/2 .. GRID/2; atan2f(0, 0) = 0
atan2f(y, x) ==
    IF x = 0 /\ y = 0 THEN 0
    ELSE AtanSigned(y, x, AtanQuadrant(Abs(y), Abs(x)))

\* Sum of f[i] over the sequence of indexes idx
RECURSIVE SumOver(_, _)
SumOver(f, idx) ==
    IF idx = <<>> THEN 0 ELSE f[Head(idx)] + SumOver(f, Tail(idx))

AllChannels == <<0, 1, 2, 3, 4, 5, 6, 7>>
AllBands == <<0, 1, 2, 3, 4>>

RECURSIVE Pow2(_)
Pow2(k) == IF k = 0 THEN 1 ELSE 2 * Pow2(k - 1)

\* flags |= static_cast<uint8_t>(1U << band)
SetBit(flags, band) ==
    IF (flags \div Pow2(band)) % 2 = 1 THEN flags ELSE flags + Pow2(band)

TestBit(flags, band) == (flags \div Pow2(band)) % 2 = 1

(***************************************************************************)
(* Inputs of the compose runs                                              *)
(***************************************************************************)
\* a matrix whose channels of band b average mean[b]: even channels are
\* spread above, odd channels spread below
Matrix(mean, spread) ==
    [ch \in Channels |->
        [b \in Bands |-> IF ch % 2 = 0 THEN mean[b + 1] + spread[b + 1]
                                       ELSE mean[b + 1] - spread[b + 1]]]

\* steady: 1 uV, alpha 50 uV, gamma silent
AmpA == Matrix(<<1000, 1000, 50000, 1000, 0>>, <<0, 0, 0, 0, 0>>)
\* against AmpA: delta the same mean, theta +4%, alpha doubled, beta +36%,
\* gamma 0 -> 0.001
AmpB == Matrix(<<1000, 1040, 100000, 1360, 1>>, <<80, 80, 4000, 80, 0>>)
\* against AmpA: delta -34%, theta +34%, alpha +4%, beta +30%, gamma 0.002
AmpC == Matrix(<<660, 1340, 52000, 1300, 2>>, <<0, 0, 500, 0, 0>>)
\* negative entries: alpha left 2, right -1; delta of the frontal channels
\* far below zero; beta strong
AmpD ==
    [ch \in Channels |->
        [b \in Bands |->
            CASE b = 2 -> IF ch % 2 = 0 THEN 2000 ELSE -1000
              [] b = 0 -> IF ch < 4 THEN -70000 ELSE 5000
              [] b = 3 -> 60000
              [] OTHER -> 4]]

AmpMatrices == {AmpA, AmpB, AmpC, AmpD}
SteadyMatrices == {AmpA, AmpB}

\* all phases 0
PhaseZero == [ch \in Channels |-> [b \in Bands |-> 0]]
\* left channels 0, right channels pi
PhaseAnti == [ch \in Channels |-> [b \in Bands |-> IF ch % 2 = 0 THEN 0 ELSE GRID \div 2]]
\* alpha: left channels one grid step below the right channels; other bands
\* in phase
PhaseLag ==
    [ch \in Channels |->
        [b \in Bands |-> IF b = 2 /\ ch % 2 = 0 THEN -1 ELSE 0]]
\* alpha as PhaseLag; other bands spread around the circle
PhaseSpread ==
    [ch \in Channels |->
        [b \in Bands |-> IF b = 2 THEN (IF ch % 2 = 0 THEN -1 ELSE 0)
                         ELSE ((ch * (b + 1) * 31) % GRID) - (GRID \div 2) + 1]]

PhaseMatrices == {PhaseZero, PhaseAnti, PhaseLag, PhaseSpread}

StageHints == {0, 6, 255}

(***************************************************************************)
(* SigprintComposer (lines 179-361)                                        *)
(***************************************************************************)
\* 1e-3f, the floor of the gate and loop denominators, in units of 1/FP
Milli == FP \div 1000

\* 1 / 1e-6f in units of 1/FP: x + 1e-6f is (x * 10^MicroDigits + 1) / 10^MicroDigits
MicroDigits == 3

LOOKBACK == 20

LEFT_INDICES == <<0, 2, 4, 6>>
RIGHT_INDICES == <<1, 3, 5, 7>>
FRONTAL == <<0, 1, 2, 3>>
OCCIPITAL == <<6, 7>>

\* SigprintResult{} (lines 82-88)
SigprintResultInit ==
    [digits |-> [k \in 0 .. 19 |-> 0], coherence |-> 0, gate_flags |-> 0,
     loop_flags |-> 0, entropy |-> 0]

\* SigprintComposerInit with initialized_ starting true
SigprintComposerInit_Initialized ==
    [initialized_ |-> TRUE,
     previous_power_ |-> [b \in Bands |-> 0],
     history_ |-> [b \in Bands |-> [k \in 0 .. (HISTORY_WINDOW - 1) |-> 0]],
     history_index_ |-> [b \in Bands |-> 0],
     history_fill_count_ |-> [b \in Bands |-> 0]]

\* SigprintComposer() (lines 181-188) and the member initialisers (355-360)
SigprintComposerInit ==
    [initialized_ |-> FALSE,
     previous_power_ |-> [b \in Bands |-> 0],
     history_ |-> [b \in Bands |-> [k \in 0 .. (HISTORY_WINDOW - 1) |-> 0]],
     history_index_ |-> [b \in Bands |-> 0],
     history_fill_count_ |-> [b \in Bands |-> 0]]

\* sqrtf(sin_sum * sin_sum + cos_sum * cos_sum) (line 207)
Magnitude(sin_sum, cos_sum) == Isqrt(sin_sum * sin_sum + cos_sum * cos_sum)

\* avg_power[band] (lines 198-206)
AvgPower(amplitude, band) ==
    SumOver([ch \in Channels |-> amplitude[ch][band]], AllChannels) \div CHANNEL_COUNT

\* band_coherence[band] (lines 199-208), in units of 1/TS
BandCoherence(phases, band) ==
    clampValue(
        Magnitude(SumOver([ch \in Channels |-> sinf(phases[ch][band])], AllChannels),
                  SumOver([ch \in Channels |-> cosf(phases[ch][band])], AllChannels))
            \div CHANNEL_COUNT,
        0, TS)

\* result.coherence (lines 212-216), in units of 1/(100*TS)
Coherence(phases) ==
    LET coherence_sum ==
            SumOver([b \in Bands |-> BandCoherence(phases, b) * Weight100[b + 1]], AllBands)
    IN  clampValue(coherence_sum, 0, 100 * TS)

\* mean_angle (lines 221-229); atan2f depends on the direction of
\* (cos_sum, sin_sum) only, and the division by indices.size() is exact
mean_angle(phases, indices) ==
    LET sin_sum == SumOver([ch \in Channels |-> sinf(phases[ch][2])], indices)
        cos_sum == SumOver([ch \in Channels |-> cosf(phases[ch][2])], indices)
    IN  atan2f(sin_sum, cos_sum)

\* phase_metric (lines 230-239): phase_diff_deg / 3.6 = 100 * diff / GRID
PhaseMetricRaw(phases) ==
    LET left_phase == mean_angle(phases, LEFT_INDICES)
        right_phase == mean_angle(phases, RIGHT_INDICES)
        phase_diff == (left_phase - right_phase) % GRID
    IN  LRound(100 * phase_diff, GRID, 0)

\* PhaseMetric without the clamp of line 239
PhaseMetric_NoClamp(phases) == PhaseMetricRaw(phases)

PhaseMetric(phases) == clampValue(PhaseMetricRaw(phases), 0, 99)

\* lroundf((part / (total + 1e-6f)) * 99.0f) (lines 249-250, 267-269).  In
\* single precision 1e-6f is absorbed by a total of magnitude 32 or more
\* (half an ulp there is 1.9e-6).
Share99(part, total) ==
    IF Abs(total) >= 32 * FP
    THEN LRound(99 * part, total, 0)
    ELSE LRound(99 * part, total * Pow10(MicroDigits) + 1, MicroDigits)

\* clampValue(lroundf((part / (part + rest + 1e-6f)) * 99.0f), 0, 99)
\* (lines 249-250, 267-269)
SharePct(part, rest) == clampValue(Share99(part, part + rest), 0, 99)

\* lr_ratio (lines 243-250)
LrRatio(amplitude) ==
    SharePct(SumOver([ch \in Channels |-> amplitude[ch][2]], LEFT_INDICES),
             SumOver([ch \in Channels |-> amplitude[ch][2]], RIGHT_INDICES))

\* std::accumulate(amplitude[idx].begin(), amplitude[idx].end(), 0.0f)
ChannelSum(amplitude, ch) == SumOver(amplitude[ch], AllBands)

\* frontal_pct (lines 257-268)
FrontalPct(amplitude) ==
    SharePct(SumOver([ch \in Channels |-> ChannelSum(amplitude, ch)], FRONTAL),
             SumOver([ch \in Channels |-> ChannelSum(amplitude, ch)], OCCIPITAL))

\* occipital_pct (lines 257-269)
OccipitalPct(amplitude) ==
    SharePct(SumOver([ch \in Channels |-> ChannelSum(amplitude, ch)], OCCIPITAL),
             SumOver([ch \in Channels |-> ChannelSum(amplitude, ch)], FRONTAL))

\* coherence_value (line 276)
CoherenceValue(coherence) == clampValue(LRound(coherence * 9999, 100 * TS, 0), 0, 9999)

\* result.digits[12 + band] (lines 283-288): weighted is in units of 1/(100*FP)
BandDigit(avg, band) ==
    LET weighted == avg * Weight100[band + 1]
    IN  clampValue(LRound(9 * weighted, weighted + 25 * 100 * FP, 0), 0, 9)

\* result.digits[0 .. 17] (lines 239-291), as the tuple of the 18 values
DigitsOf(phase_metric, lr_ratio, frontal_pct, occipital_pct, coherence_value, amplitude, stage_hint) ==
    <<phase_metric \div 10, phase_metric % 10,
      lr_ratio \div 10, lr_ratio % 10,
      frontal_pct \div 10, frontal_pct % 10,
      occipital_pct \div 10, occipital_pct % 10,
      (coherence_value \div 1000) % 10, (coherence_value \div 100) % 10,
      (coherence_value \div 10) % 10, coherence_value % 10,
      BandDigit(AvgPower(amplitude, 0), 0), BandDigit(AvgPower(amplitude, 1), 1),
      BandDigit(AvgPower(amplitude, 2), 2), BandDigit(AvgPower(amplitude, 3), 3),
      BandDigit(AvgPower(amplitude, 4), 4),
      stage_hint % 10>>

\* result.digits[0 .. 17] of a compose call
Digits18(amplitude, phases, stage_hint) ==
    DigitsOf(PhaseMetric(phases), LrRatio(amplitude), FrontalPct(amplitude),
             OccipitalPct(amplitude), CoherenceValue(Coherence(phases)),
             amplitude, stage_hint)

\* static_cast<uint8_t>(value)
Uint8(value) == value % 256

RECURSIVE SumSeq(_)
SumSeq(seq) == IF seq = <<>> THEN 0 ELSE Head(seq) + SumSeq(Tail(seq))

\* ChecksumVal with the modulus 100 in place of 97
ChecksumVal_Mod100(digits18) == SumSeq([k \in 1 .. 18 |-> Uint8(digits18[k])]) % 100

\* checksum_val (lines 328-332) of the 18 digits as stored (uint8_t)
ChecksumVal(digits18) == SumSeq([k \in 1 .. 18 |-> Uint8(digits18[k])]) % 97

\* lines 333-334: the two checksum digits after the 18 digits as stored
AppendChecksum(digits18, checksum_val) ==
    [k \in 1 .. 18 |-> Uint8(digits18[k])]
        \o <<(checksum_val \div 10) % 10, checksum_val % 10>>

\* std::array<uint8_t, 20> digits: digits[k] for k = 0 .. 19
DigitsArray(all) == [k \in 0 .. 19 |-> all[k + 1]]

\* result.digits (lines 239-334)
WithChecksum(digits18) ==
    DigitsArray(AppendChecksum(digits18, ChecksumVal(digits18)))

\* -p * log2(p) * FP for p = count / 20, count = 1 .. 20 (lines 347-348)
PLog2P ==
    <<216, 332, 411, 464, 500, 521, 530, 529, 518, 500,
      474, 442, 404, 360, 311, 258, 199, 137, 70, 0>>

\* result.entropy (lines 337-350), in units of 1/FP
Entropy(digits) ==
    LET count(d) == Cardinality({k \in 0 .. 19 : digits[k] = d})
    IN  SumOver([d \in 0 .. 9 |-> IF count(d) = 0 THEN 0 ELSE PLog2P[count(d)]],
                <<0, 1, 2, 3, 4, 5, 6, 7, 8, 9>>)

(***************************************************************************)
(* The per-band loop of compose (lines 294-323).  A loop state st holds    *)
(* the composer c, the two flag bytes of the result, and the order in      *)
(* which the iterations compared and stored: one entry <<statement, band,   *)
(* index read or written>> per statement run.                              *)
(***************************************************************************)
\* GateDetect without the initialized_ guard of line 296
GateDetect_Unguarded(st, band, avg) ==
    LET prev == st.c.previous_power_[band]
        denom == Max2(prev, Milli)
        hit == 100 * Abs(avg - prev) >= 35 * denom
    IN  [st EXCEPT !.gate_flags = IF hit THEN SetBit(@, band) ELSE @,
                   !.order = Append(@, <<"gate_compare", band, band>>)]

\* GateDetect with the threshold 0.5 in place of 0.35
GateDetect_Half(st, band, avg) ==
    LET prev == st.c.previous_power_[band]
        denom == Max2(prev, Milli)
        hit == 100 * Abs(avg - prev) >= 50 * denom
    IN  IF st.c.initialized_
        THEN [st EXCEPT !.gate_flags = IF hit THEN SetBit(@, band) ELSE @,
                        !.order = Append(@, <<"gate_compare", band, band>>)]
        ELSE st

\* lines 295-302: the gate comparison against previous_power_[band]
GateDetect(st, band, avg) ==
    LET prev == st.c.previous_power_[band]
        denom == Max2(prev, Milli)
        hit == 100 * Abs(avg - prev) >= 35 * denom
    IN  IF st.c.initialized_
        THEN [st EXCEPT !.gate_flags = IF hit THEN SetBit(@, band) ELSE @,
                        !.order = Append(@, <<"gate_compare", band, band>>)]
        ELSE st

\* PreviousPowerStore skipped until the composer is initialized
PreviousPowerStore_WhenInitialized(st, band, avg) ==
    IF st.c.initialized_
    THEN [st EXCEPT !.c.previous_power_[band] = avg,
                    !.order = Append(@, <<"previous_power_store", band, band>>)]
    ELSE st

\* line 303
PreviousPowerStore(st, band, avg) ==
    [st EXCEPT !.c.previous_power_[band] = avg,
               !.order = Append(@, <<"previous_power_store", band, band>>)]

\* HistoryStore with the head incremented and not reduced modulo the length
HistoryStore_NoWrap(st, band, avg) ==
    LET head == st.c.history_index_[band]
    IN  [st EXCEPT !.c.history_[band][head] = avg,
                   !.c.history_index_[band] = head + 1,
                   !.c.history_fill_count_[band] =
                       IF @ < HISTORY_WINDOW THEN @ + 1 ELSE @,
                   !.order = Append(@, <<"history_store", band, head>>)]

\* lines 308-313: the history write, the head and the fill count
HistoryStore(st, band, avg) ==
    LET head == st.c.history_index_[band]
    IN  [st EXCEPT !.c.history_[band][head] = avg,
                   !.c.history_index_[band] = (head + 1) % HISTORY_WINDOW,
                   !.c.history_fill_count_[band] =
                       IF @ < HISTORY_WINDOW THEN @ + 1 ELSE @,
                   !.order = Append(@, <<"history_store", band, head>>)]

\* LoopIndex looking forward instead of back
LoopIndex_Forward(head) == (head + LOOKBACK) % HISTORY_WINDOW

\* line 315
LoopIndex(head) == (head + HISTORY_WINDOW - LOOKBACK) % HISTORY_WINDOW

\* LoopDetect with fill >= lookback in place of fill > lookback
LoopDetect_OffByOne(st, band, avg, head) ==
    LET idx == LoopIndex(head)
        reference == st.c.history_[band][idx]
        denom == Max2(reference, Milli)
        hit == 100 * Abs(avg - reference) <= 5 * denom
    IN  IF st.c.initialized_ /\ st.c.history_fill_count_[band] >= LOOKBACK
        THEN [st EXCEPT !.loop_flags = IF hit THEN SetBit(@, band) ELSE @,
                        !.order = Append(@, <<"loop_compare", band, idx>>)]
        ELSE st

\* lines 314-322: the loop comparison against history_[band][idx]; head is
\* the head read at line 308, before the store
LoopDetect(st, band, avg, head) ==
    LET idx == LoopIndex(head)
        reference == st.c.history_[band][idx]
        denom == Max2(reference, Milli)
        hit == 100 * Abs(avg - reference) <= 5 * denom
    IN  IF st.c.initialized_ /\ st.c.history_fill_count_[band] > LOOKBACK
        THEN [st EXCEPT !.loop_flags = IF hit THEN SetBit(@, band) ELSE @,
                        !.order = Append(@, <<"loop_compare", band, idx>>)]
        ELSE st

\* BandIteration storing previous_power_ before the gate comparison
BandIteration_StoreFirst(st, band, avg) ==
    LET head == st.c.history_index_[band]
    IN  LoopDetect(
            HistoryStore(GateDetect(PreviousPowerStore(st, band, avg), band, avg),
                         band, avg),
            band, avg, head)

\* one iteration of the loop at lines 294-323
BandIteration(st, band, avg) ==
    LET head == st.c.history_index_[band]
    IN  LoopDetect(
            HistoryStore(PreviousPowerStore(GateDetect(st, band, avg), band, avg),
                         band, avg),
            band, avg, head)

RECURSIVE BandLoop(_, _, _)
BandLoop(st, amplitude, band) ==
    IF band = BAND_COUNT THEN st
    ELSE BandLoop(BandIteration(st, band, AvgPower(amplitude, band)), amplitude, band + 1)

\* result.digits, result.coherence and result.entropy (lines 216, 334, 350)
FingerprintFields(digits, coherence) ==
    [digits |-> digits, coherence |-> coherence, entropy |-> Entropy(digits)]

\* The part of the result that depends on the arguments of the call alone:
\* digits, coherence and entropy (lines 197-291 and 327-350)
Fingerprint(amplitude, phases, stage_hint) ==
    FingerprintFields(WithChecksum(Digits18(amplitude, phases, stage_hint)),
                      Coherence(phases))

\* Fingerprint of the inputs of the compose runs, evaluated once
FingerprintTable ==
    [a \in AmpMatrices |->
        [p \in PhaseMatrices |->
            [s \in StageHints \cup {1} |-> Fingerprint(a, p, s)]]]

\* Fingerprint(amplitude, phases, stage_hint), looked up when tabulated
FingerprintOf(amplitude, phases, stage_hint) ==
    IF amplitude \in AmpMatrices /\ phases \in PhaseMatrices
           /\ stage_hint \in StageHints \cup {1}
    THEN FingerprintTable[amplitude][phases][stage_hint]
    ELSE Fingerprint(amplitude, phases, stage_hint)

\* lines 325-351: initialized_ = true, and the result returned, from the
\* state st after the per-band loop and the fingerprint fp
ComposeReturn(st, fp) ==
    [composer |-> [st.c EXCEPT !.initialized_ = TRUE],
     result |-> [digits |-> fp.digits,
                 coherence |-> fp.coherence,
                 gate_flags |-> st.gate_flags,
                 loop_flags |-> st.loop_flags,
                 entropy |-> fp.entropy],
     order |-> st.order]

\* SigprintComposer::compose (lines 190-352): the composer after the call,
\* the result returned, and the order of the per-band statements
compose(c, amplitude, phases, stage_hint) ==
    ComposeReturn(BandLoop([c |-> c, gate_flags |-> 0, loop_flags |-> 0,
                            order |-> <<>>],
                           amplitude, 0),
                  FingerprintOf(amplitude, phases, stage_hint))

(***************************************************************************)
(* MultiBandLockIn (lines 113-177)                                         *)
(***************************************************************************)
\* state.filter_alpha (lines 126-128) in units of 1/AS:
\* clampValue(expf(-2 * PI_F * bandwidth / 250), 0, 0.9995) for the
\* bandwidths 3, 3, 3, 10, 20 of kBands
FilterAlpha == <<9274, 9274, 9274, 7778, 6049>>

\* state.ref_sin[i] (line 131): TWO_PI_F * freq * i / 250 is the grid angle
\* CenterHalfHz * i
ref_sin(band, i) == sinf(CenterHalfHz[band + 1] * i)

\* state.ref_cos[i] (line 132)
ref_cos(band, i) == cosf(CenterHalfHz[band + 1] * i)

\* MultiBandLockIn::reset (lines 121-139)
LockInReset ==
    [index_ |-> 0,
     bands_ |-> [b \in Bands |-> [i |-> 0, q |-> 0, amplitude |-> 0, phase |-> 0]]]

\* filter_alpha * previous + beta * raw, beta = 1 - filter_alpha (lines 147-149)
LowPass(filter_alpha, previous, raw) ==
    RoundDiv(filter_alpha * previous + (AS - filter_alpha) * raw, AS)

\* lines 148-151: the band state for the filtered i and q
BandState(i, q) ==
    [i |-> i, q |-> q,
     amplitude |-> 2 * Isqrt(i * i + q * q),
     phase |-> atan2f(q, i)]

\* one band of MultiBandLockIn::process (lines 144-151)
ProcessBand(state, band, idx, sample_uv) ==
    BandState(LowPass(FilterAlpha[band + 1], state.i,
                      RoundDiv(sample_uv * ref_cos(band, idx), TS)),
              LowPass(FilterAlpha[band + 1], state.q,
                      RoundDiv(sample_uv * ref_sin(band, idx), TS)))

\* process with the cursor incremented and not reduced modulo WINDOW
process_NoWrap(lockin, sample_uv) ==
    [index_ |-> lockin.index_ + 1,
     bands_ |-> [b \in Bands |->
                    ProcessBand(lockin.bands_[b], b, lockin.index_, sample_uv)]]

\* MultiBandLockIn::process (lines 141-154)
process(lockin, sample_uv) ==
    [index_ |-> (lockin.index_ + 1) % WINDOW,
     bands_ |-> [b \in Bands |->
                    ProcessBand(lockin.bands_[b], b, lockin.index_, sample_uv)]]

\* MultiBandLockIn::snapshot (lines 156-162): amplitude_out
SnapshotAmplitude(lockin) == [b \in Bands |-> lockin.bands_[b].amplitude]

\* MultiBandLockIn::snapshot (lines 156-162): phase_out
SnapshotPhase(lockin) == [b \in Bands |-> lockin.bands_[b].phase]

(***************************************************************************)
(* State                                                                   *)
(***************************************************************************)
VARIABLES
    band_processors,    \* std::array<MultiBandLockIn, CHANNEL_COUNT> (line 790)
    sigprint_composer,  \* SigprintComposer (line 791)
    current_sigprint,   \* the SigprintResult last returned by compose (line 792)
    band_amplitude,     \* the amplitude matrix last snapshot / passed to compose
    band_phases,        \* the phase matrix last snapshot / passed to compose
    stage_hint_arg,     \* the stage_hint of the last compose call
    calls,              \* history: number of compose calls so far
    avg_log,            \* history: avg_power of every compose call, in order
    order,              \* history: statement order of the last compose call
    changes,            \* history: calls whose amplitude matrix differed from the call before
    scenario,           \* the signal of an end-to-end scenario
    fed,                \* history: samples fed to every lock-in bank
    millis,             \* millis() as last read by loop() (line 848)
    g_data_ready,       \* volatile bool g_data_ready (line 513)
    last_raw,           \* loop(): static last_raw (line 832)
    last_packet_ms,     \* loop(): static last_packet_ms (line 835)
    last_sigprint_ms,   \* loop(): static last_sigprint_ms (line 836)
    packet_counter,     \* loop(): static packet_counter (line 837)
    packet_buffer,      \* PacketBuffer packet_buffer (line 793), by field
    stage_state,        \* StageState stage_state (line 794)
    wifi_ap_mode,       \* bool wifi_ap_mode (line 59)
    written_ms,         \* history: millis() at the write of each history slot
    reference_age_ms,   \* history: age of the slot read by the last loop comparison
    irregular,          \* history: loop iterations that were short, had no frame or a command
    websocket_client_count, \* volatile uint32_t websocket_client_count (line 615)
    iterations,         \* history: iterations of loop() so far
    steps,              \* history: the calls of the last loop() iteration, in order
    ws_sent,            \* history: the buffer last passed to ws.binaryAll (line 867)
    serial_sent,        \* history: the buffer last passed to Serial.write (line 871)
    previous_packet,    \* history: packet_buffer before the last encodePacket call
    packet_ms,          \* history: now_ms of the last three packet ticks
    fed_at_packet,      \* history: frames read up to each of the last two packet ticks
    compose_ms,         \* history: now_ms of the last two compose calls
    flip_bit,           \* the payload bit flipped in transit, or -1
    flipped_crc,        \* crc16_ccitt of the payload with flip_bit flipped
    loop_pc,            \* the statement of loop() lines 839-848 to run next
    interrupts          \* history: firings of onDataReady counted so far

composeVars ==
    <<band_processors, sigprint_composer, current_sigprint, band_amplitude,
      band_phases, stage_hint_arg, calls, avg_log, order, changes, scenario, fed>>

loopVars ==
    <<millis, g_data_ready, last_raw, last_packet_ms, last_sigprint_ms,
      packet_counter, packet_buffer, stage_state, wifi_ap_mode, written_ms,
      reference_age_ms, irregular>>

tickVars ==
    <<websocket_client_count, iterations, steps, ws_sent, serial_sent,
      previous_packet, packet_ms, fed_at_packet, compose_ms>>

packetVars == <<flip_bit, flipped_crc>>

irqVars == <<loop_pc, interrupts>>

vars == <<composeVars, loopVars, tickVars, packetVars, irqVars>>

(***************************************************************************)
(* Bounds and inputs                                                       *)
(***************************************************************************)
\* compose calls in a run of Spec
MaxCalls == 4
\* compose calls in a run of SpecSteady
MaxTicks == 86
\* changes of the amplitude matrix in a run of SpecSteady
MaxChanges == 1
\* seconds of millis() time covered by a run of SpecLoop
MaxSeconds == 22
\* loop iterations of a run of SpecLoop that are short, find no frame or
\* receive a serial command
MaxIrregular == 2
\* encodePacket calls in a run of SpecPacket or SpecCrc
MaxEncodes == 2
\* cases of arguments in SpecPacket
MaxCases == 16
\* cases of arguments in SpecCrc
MaxCrcCases == 3

\* the iterations of loop() that SpecTicks follows
MaxIterations == 5

\* the process and snapshot calls that SpecBank follows
MaxBankCalls == 4

\* seconds of millis() that SpecStage follows
MaxStageSeconds == 100

\* milliseconds run after millis() has wrapped around
MaxWrapMs == 120

\* the firings of onDataReady and the iterations of loop() that SpecIrq
\* follows
MaxInterrupts == 3
MaxIrqIterations == 4

(***************************************************************************)
(* Main loop: timing, stage rotation, frame input, packet (lines 36-65,    *)
(* 379-462, 510-580, 751-772, 789-909)                                     *)
(***************************************************************************)
PACKET_RATE_HZ == 25
PACKET_INTERVAL_MS == 1000 \div PACKET_RATE_HZ
SIGPRINT_INTERVAL_MS == 1000
STAGE_HOLD_MS == 15000
kStageFrequencies == <<222, 333, 1111, 2222, 11111, 22222>>

\* ADC_REFERENCE_V in millivolts, ADC_GAIN, and the full-scale count of
\* ADC_SCALE_UV (lines 42-44)
ADC_REFERENCE_MV == 4500
ADC_GAIN == 24
ADC_FULL_SCALE == 8388607

\* one digit of MulDivWide: <<q, r>> = <<floor(x / b), x mod b>> becomes
\* that of 128 * x + add
MulDivStep(qr, add, b) ==
    <<128 * qr[1] + ((128 * qr[2] + add) \div b), (128 * qr[2] + add) % b>>

\* <<floor(a * m / b), (a * m) mod b>> for 0 <= a <= b < 2^23 and m >= 0, by
\* long division on the digits of m in base 128 (no intermediate reaches 2^31)
RECURSIVE MulDivWide(_, _, _)
MulDivWide(a, m, b) ==
    IF m = 0 THEN <<0, 0>>
    ELSE MulDivStep(MulDivWide(a, m \div 128, b), (m % 128) * a, b)

\* the quotient of <<q, r>> = <<floor(x / b), x mod b>> to the nearest integer
Nearest(qr, b) == qr[1] + (IF qr[2] >= b - qr[2] THEN 1 ELSE 0)

\* mag with the sign of value
Signed(value, mag) == IF value < 0 THEN -mag ELSE mag

\* static_cast<float>(raw) * ADC_SCALE_UV (line 842), in units of 1/FP uV,
\* to the nearest unit
ToMicrovolts(raw) ==
    Signed(raw, Nearest(MulDivWide(Abs(raw),
                                   ((ADC_REFERENCE_MV * 1000) \div ADC_GAIN) * FP,
                                   ADC_FULL_SCALE),
                        ADC_FULL_SCALE))

\* readFrame, lines 568-575: the three bytes of a channel, most significant
\* first, as a sign-extended 24-bit value
SignExtend24(b2, b1, b0) ==
    LET value == b2 * 65536 + b1 * 256 + b0
    IN  IF b2 >= 128 THEN value - 16777216 ELSE value

\* the three bytes the converter sends for a count in -2^23 .. 2^23 - 1
AdcBytes(count) ==
    LET word == IF count < 0 THEN count + 16777216 ELSE count
    IN  <<word \div 65536, (word \div 256) % 256, word % 256>>

\* the count the converter holds at its n-th frame: the 10 Hz sinusoid of
\* 447 counts (10 uV), or silence
AdcCount(sc, n) ==
    IF sc = "alpha" THEN RoundDiv(447 * sinf(20 * n), TS) ELSE 0

\* Ads1299Interface::readFrame (lines 556-580) with g_data_ready set: the
\* frame read from the bytes on the bus
readFrame(sc, n) ==
    LET bytes == AdcBytes(AdcCount(sc, n))
    IN  [ch \in Channels |-> SignExtend24(bytes[1], bytes[2], bytes[3])]

\* stageFrequency with the index stage % 6
stageFrequency_NoOffset(stage) ==
    IF stage = 0 THEN 0
    ELSE kStageFrequencies[(stage % Len(kStageFrequencies)) + 1]

\* stageFrequency (lines 756-762)
stageFrequency(stage) ==
    IF stage = 0 THEN 0
    ELSE kStageFrequencies[((stage - 1) % Len(kStageFrequencies)) + 1]

\* uint32_t times: a value v is held as v when v < 2^31 and as v - 2^32
\* otherwise (its two's complement reading), so millis() passes from -1 to 0
\* when it wraps around, and the bytes of a value are those of both readings

\* a >= b on uint32_t
AtLeast32(a, b) == IF (a < 0) = (b < 0) THEN a >= b ELSE a < 0

\* ElapsedAtLeast written as now_ms >= last_ms + interval
ElapsedAtLeast_Deadline(now_ms, last_ms, interval) ==
    AtLeast32(now_ms, last_ms + interval)

\* now_ms - last_ms >= interval on uint32_t (lines 765, 850, 857), for times
\* less than 2^31 apart: the difference is taken modulo 2^32, so with now_ms
\* under last_ms it is 2^32 - (last_ms - now_ms), above every interval
ElapsedAtLeast(now_ms, last_ms, interval) ==
    IF now_ms - last_ms < 0 THEN TRUE ELSE now_ms - last_ms >= interval

\* updateStage returning to stage 1 one stage late
updateStage_SevenStages(state, now_ms) ==
    IF ElapsedAtLeast(now_ms, state.last_transition_ms, STAGE_HOLD_MS)
    THEN LET next == (state.stage + 1) % 256
         IN  [stage |-> IF next > Len(kStageFrequencies) + 1 THEN 1 ELSE next,
              last_transition_ms |-> now_ms]
    ELSE state

\* updateStage (lines 764-772); stage is a uint8_t
updateStage(state, now_ms) ==
    IF ElapsedAtLeast(now_ms, state.last_transition_ms, STAGE_HOLD_MS)
    THEN LET next == (state.stage + 1) % 256
         IN  [stage |-> IF next > Len(kStageFrequencies) THEN 1 ELSE next,
              last_transition_ms |-> now_ms]
    ELSE state

\* packet layout (lines 48-52) and CRC parameters (lines 54-55)
HEADER_SIZE == 12
EEG_PAYLOAD_BYTES == 344
SIGPRINT_PAYLOAD_BYTES == 24
PAYLOAD_BYTES == EEG_PAYLOAD_BYTES + SIGPRINT_PAYLOAD_BYTES + 1 + 2
PACKET_BYTES == HEADER_SIZE + PAYLOAD_BYTES
CRC16_POLY == 4129
CRC16_INIT == 65535

\* bit w (a power of two) of a ^ b, for a, b >= 0
XorBit(a, b, w) == (((a \div w) + (b \div w)) % 2) * w

\* a ^ b for a, b in 0 .. 255
Xor8(a, b) ==
    XorBit(a, b, 1) + XorBit(a, b, 2) + XorBit(a, b, 4) + XorBit(a, b, 8)
        + XorBit(a, b, 16) + XorBit(a, b, 32) + XorBit(a, b, 64) + XorBit(a, b, 128)

\* a ^ b for a, b in 0 .. 65535
Xor16(a, b) == 256 * Xor8(a \div 256, b \div 256) + Xor8(a % 256, b % 256)

\* CrcShift without the polynomial
CrcShift_NoPoly(crc) == (2 * crc) % 65536

\* lines 103-107: one pass of the bit loop on the uint16_t crc
CrcShift(crc) ==
    IF crc >= 32768 THEN Xor16((2 * crc) % 65536, CRC16_POLY) ELSE 2 * crc

\* lines 102-108: n passes of the bit loop
RECURSIVE CrcBits(_, _)
CrcBits(crc, n) == IF n = 0 THEN crc ELSE CrcShift(CrcBits(crc, n - 1))

\* lines 101-108: crc after one byte is folded in
CrcByte(crc, byte) == CrcBits(Xor16(crc, byte * 256), 8)

\* lines 100-109: crc after the bytes data[lo .. hi - 1] are folded in, in
\* index order; the range is halved, and the crc of the lower half is a
\* uint16_t value before the upper half is entered
RECURSIVE CrcRange(_, _, _, _)
CrcRange(crc, data, lo, hi) ==
    IF crc \notin 0 .. 65535 \/ hi = lo THEN crc
    ELSE IF hi = lo + 1 THEN CrcByte(crc, data[lo])
    ELSE CrcRange(CrcRange(crc, data, lo, (lo + hi) \div 2), data, (lo + hi) \div 2, hi)

\* crc16_ccitt (lines 98-111) over data[0 .. length - 1]
crc16_ccitt(data, length) == CrcRange(CRC16_INIT, data, 0, length)

\* writeUint16LE (lines 367-370): the two bytes stored at dst
writeUint16LE(value) == <<value % 256, (value \div 256) % 256>>

\* writeUint32LE (lines 372-377): the four bytes stored at dst
writeUint32LE(value) ==
    <<value % 256, (value \div 256) % 256, (value \div 65536) % 256,
      (value \div 16777216) % 256>>

\* lines 393-396: the three bytes stored for an int32_t sample (value & 0xFF,
\* (value >> 8) & 0xFF, (value >> 16) & 0xFF; >> is arithmetic)
SampleBytes(value) ==
    <<value % 256, (value \div 256) % 256, (value \div 65536) % 256>>

\* pi as a ratio, to 6e-10
PI_NUM == 103993
PI_DEN == 33102

\* <<q, r, k>> with q = floor(x * 2^k) in 2^23 .. 2^24 - 1 and r / den the
\* rest, from q = floor(x * 2^k) < 2^24 and r, for x > 0 and den < 2^27
RECURSIVE Normalize(_, _, _, _)
Normalize(q, r, den, k) ==
    IF q >= 8388608 THEN <<q, r, k>>
    ELSE IF q < 524288
         THEN Normalize(16 * q + ((16 * r) \div den), (16 * r) % den, den, k + 4)
         ELSE Normalize(2 * q + ((2 * r) \div den), (2 * r) % den, den, k + 1)

\* the 24-bit significand of <<q, r, k>>, the rest rounded to nearest (a tie
\* to even); 2^24 when the rounding carries
Significand(n, den) ==
    n[1] + (IF 2 * n[2] > den \/ (2 * n[2] = den /\ n[1] % 2 = 1) THEN 1 ELSE 0)

\* the biased exponent (8 bits) and the fraction (23 bits) of the float with
\* significand m at scale 2^-k
ExponentField(m, k) == IF m = 16777216 THEN 151 - k ELSE 150 - k

FractionField(m) == IF m = 16777216 THEN 0 ELSE m - 8388608

\* the object representation of an IEEE-754 binary32, least significant
\* byte first
FloatBytes(sign, exponent, fraction) ==
    <<fraction % 256, (fraction \div 256) % 256,
      (exponent % 2) * 128 + (fraction \div 65536),
      sign * 128 + (exponent \div 2)>>

FloatOf(sign, m, k) == FloatBytes(sign, ExponentField(m, k), FractionField(m))

FloatRounded(sign, n, den) == FloatOf(sign, Significand(n, den), n[3])

\* std::memcpy(payload + offset, &value, sizeof(float)) for the float nearest
\* to num / den (|num / den| < 2^24, 0 < den < 2^27): the four bytes stored
Float32LE(num, den) ==
    IF num = 0 THEN <<0, 0, 0, 0>>
    ELSE FloatRounded(IF num < 0 THEN 1 ELSE 0,
                      Normalize(Abs(num) \div den, Abs(num) % den, den, 0), den)

\* seqs[1] \o seqs[2] \o ... : the bytes in the order the cursor wrote them
RECURSIVE Concat(_, _, _)
Concat(seqs, lo, hi) ==
    IF hi < lo THEN <<>>
    ELSE IF hi = lo THEN seqs[lo]
    ELSE Concat(seqs, lo, (lo + hi) \div 2) \o Concat(seqs, ((lo + hi) \div 2) + 1, hi)

\* lines 391-397: raw samples, 24-bit little-endian
RawSection(raw_samples) ==
    Concat([ch \in 1 .. CHANNEL_COUNT |-> SampleBytes(raw_samples[ch - 1])],
           1, CHANNEL_COUNT)

\* lines 399-406: band_amplitude as float32, channel by channel (model unit
\* 1/FP)
AmplitudeSection(amplitude) ==
    Concat([n \in 1 .. (CHANNEL_COUNT * BAND_COUNT) |->
               Float32LE(amplitude[(n - 1) \div BAND_COUNT][(n - 1) % BAND_COUNT], FP)],
           1, CHANNEL_COUNT * BAND_COUNT)

\* lines 408-415: band_phases as float32, channel by channel (model unit
\* 2 * pi / GRID radians)
PhaseSection(phases) ==
    Concat([n \in 1 .. (CHANNEL_COUNT * BAND_COUNT) |->
               Float32LE(phases[(n - 1) \div BAND_COUNT][(n - 1) % BAND_COUNT]
                             * 2 * PI_NUM, GRID * PI_DEN)],
           1, CHANNEL_COUNT * BAND_COUNT)

\* DigitSection with the low nibble holding the first digit of each pair
DigitSection_LowNibbleFirst(digits) ==
    [pair \in 1 .. 10 |-> Uint8(16 * digits[2 * pair - 1] + digits[2 * pair - 2])]

\* lines 417-422: the 20 digits (each already reduced modulo 10), two per
\* byte, high nibble first: (high << 4) | low
DigitSection(digits) ==
    [pair \in 1 .. 10 |-> Uint8(16 * digits[2 * pair - 2] + digits[2 * pair - 1])]

\* lines 424-445: coherence (model unit 1/(100 * TS)), gate and loop flags,
\* entropy (model unit 1/FP), four reserved zero bytes, stage, zipper
\* frequency
TailSection(p) ==
    Float32LE(p.coherence, 100 * TS)
        \o <<Uint8(p.gate_flags), Uint8(p.loop_flags)>>
        \o Float32LE(p.entropy, FP)
        \o <<0, 0, 0, 0>>
        \o <<Uint8(p.stage)>>
        \o writeUint16LE(p.zipper_freq_hz)

\* PayloadWritten with the phase matrix written before the amplitude matrix
PayloadWritten_PhasesFirst(p) ==
    RawSection(p.raw_samples) \o PhaseSection(p.phases)
        \o AmplitudeSection(p.amplitude) \o DigitSection(p.digits) \o TailSection(p)

\* lines 389-445: the bytes written through payload[offset++], in order; the
\* cursor offset at line 448 is the length of this sequence
PayloadWritten(p) ==
    RawSection(p.raw_samples) \o AmplitudeSection(p.amplitude)
        \o PhaseSection(p.phases) \o DigitSection(p.digits) \o TailSection(p)

\* a sequence as an array indexed from 0
ZeroBased(seq) == [i \in 0 .. (Len(seq) - 1) |-> seq[i + 1]]

\* HeaderWritten with the CRC taken over the timestamp bytes and the payload
HeaderWritten_CrcWithTimestamp(p, payload) ==
    writeUint16LE(21319) \o <<1, 1>> \o writeUint32LE(p.timestamp_ms)
        \o writeUint16LE(PAYLOAD_BYTES)
        \o writeUint16LE(CrcRange(CrcRange(CRC16_INIT,
                                           ZeroBased(writeUint32LE(p.timestamp_ms)), 0, 4),
                                  payload, 0, PAYLOAD_BYTES))

\* lines 454-461: the 12 header bytes, the CRC taken over
\* payload[0 .. PAYLOAD_BYTES - 1]
HeaderWritten(p, payload) ==
    writeUint16LE(21319) \o <<1, 1>> \o writeUint32LE(p.timestamp_ms)
        \o writeUint16LE(PAYLOAD_BYTES)
        \o writeUint16LE(crc16_ccitt(payload, PAYLOAD_BYTES))

PacketOf(p, written) == ZeroBased(HeaderWritten(p, ZeroBased(written)) \o written)

\* out.data (lines 363-365) after encodePacket has written p; before the
\* first call every byte is zero (line 793)
PacketData(p) ==
    IF p.payload_length = 0 THEN [i \in 0 .. (PACKET_BYTES - 1) |-> 0]
    ELSE PacketOf(p, PayloadWritten(p))

\* encodePacket (lines 379-462): the buffer by field, as the call leaves it.
\* The payload fields are the values the cursor serialises (lines 391-445),
\* payload_length the length field of the header (line 460); the bytes are
\* PacketData of this record.  timestamp_ms is a uint32_t below 2^31 here.
encodePacket(raw_samples, amplitude, phases, sigprint, stage, zipper_freq_hz, timestamp_ms) ==
    [timestamp_ms |-> timestamp_ms,
     raw_samples |-> raw_samples,
     amplitude |-> amplitude,
     phases |-> phases,
     digits |-> [k \in 0 .. 19 |-> Uint8(sigprint.digits[k]) % 10],
     coherence |-> sigprint.coherence,
     gate_flags |-> sigprint.gate_flags,
     loop_flags |-> sigprint.loop_flags,
     entropy |-> sigprint.entropy,
     stage |-> stage,
     zipper_freq_hz |-> zipper_freq_hz,
     payload_length |-> PAYLOAD_BYTES]

\* PacketBuffer packet_buffer{} (line 793): all bytes zero
PacketBufferInit ==
    [timestamp_ms |-> 0,
     raw_samples |-> [ch \in Channels |-> 0],
     amplitude |-> [ch \in Channels |-> [b \in Bands |-> 0]],
     phases |-> [ch \in Channels |-> [b \in Bands |-> 0]],
     digits |-> [k \in 0 .. 19 |-> 0],
     coherence |-> 0,
     gate_flags |-> 0,
     loop_flags |-> 0,
     entropy |-> 0,
     stage |-> 0,
     zipper_freq_hz |-> 0,
     payload_length |-> 0]

\* the serial commands read at lines 883-907: none pending, 'J', 'B', 'S'
Commands == {"none", "J", "B", "S"}

\* the switch at lines 885-906 on wifi_ap_mode
SerialCommand(mode, cmd) ==
    CASE cmd = "J" -> TRUE
      [] cmd = "B" -> FALSE
      [] OTHER -> mode

\* millis() at the end of setup(): at once, or after the 3 s wait for the
\* serial port (lines 798-800)
SetupMillis == {0, 3 * 1000}

\* milliseconds between the millis() reads of two loop iterations: under
\* the packet interval, or a stall of one fingerprint interval
LoopElapsed == {PACKET_INTERVAL_MS - 15, SIGPRINT_INTERVAL_MS}

\* the globals (lines 789-794), the statics of loop() (lines 832-837) and
\* stage_state as setup() leaves it at millis() = t (lines 819-820)
LoopVarsInit(t) ==
    /\ millis = t
    /\ g_data_ready = FALSE
    /\ last_raw = [ch \in Channels |-> 0]
    /\ last_packet_ms = 0
    /\ last_sigprint_ms = 0
    /\ packet_counter = 0
    /\ packet_buffer = PacketBufferInit
    /\ stage_state = [stage |-> 1, last_transition_ms |-> t]
    /\ wifi_ap_mode = TRUE
    /\ written_ms = [k \in 0 .. (HISTORY_WINDOW - 1) |-> -1]
    /\ reference_age_ms = -1
    /\ irregular = 0
    /\ websocket_client_count = 0
    /\ iterations = 0
    /\ steps = <<>>
    /\ ws_sent = PacketBufferInit
    /\ serial_sent = PacketBufferInit
    /\ previous_packet = PacketBufferInit
    /\ packet_ms = <<-1, -1, -1>>
    /\ fed_at_packet = <<0, 0>>
    /\ compose_ms = <<-1, -1>>
    /\ flip_bit = -1
    /\ flipped_crc = -1
    /\ loop_pc = "available"
    /\ interrupts = 0

(***************************************************************************)
(* Actions                                                                 *)
(***************************************************************************)
Init ==
    /\ band_processors = [ch \in Channels |-> LockInReset]
    /\ sigprint_composer = SigprintComposerInit
    /\ current_sigprint = SigprintResultInit
    /\ band_amplitude = [ch \in Channels |-> [b \in Bands |-> 0]]
    /\ band_phases = [ch \in Channels |-> [b \in Bands |-> 0]]
    /\ stage_hint_arg = 0
    /\ calls = 0
    /\ avg_log = <<>>
    /\ order = <<>>
    /\ changes = 0
    /\ scenario = "none"
    /\ fed = 0
    /\ LoopVarsInit(0)

\* lines 853-855: the snapshot of all channels when the packet is due
Snapshot(processors, packet_due) ==
    IF packet_due
    THEN [amplitude |-> [ch \in Channels |-> SnapshotAmplitude(processors[ch])],
          phases |-> [ch \in Channels |-> SnapshotPhase(processors[ch])]]
    ELSE [amplitude |-> band_amplitude, phases |-> band_phases]

\* sigprint_composer.compose(amplitude, phases, stage_hint), the result
\* stored as at line 859
ComposeCall(amplitude, phases, stage_hint) ==
    \E r \in {compose(sigprint_composer, amplitude, phases, stage_hint)} :
        /\ sigprint_composer' = r.composer
        /\ current_sigprint' = r.result
        /\ order' = r.order
        /\ band_amplitude' = amplitude
        /\ band_phases' = phases
        /\ stage_hint_arg' = stage_hint
        /\ calls' = calls + 1
        /\ avg_log' = Append(avg_log, [b \in Bands |-> AvgPower(amplitude, b)])
        /\ changes' = IF calls > 0 /\ amplitude # band_amplitude
                      THEN changes + 1 ELSE changes

\* a compose call with any input
Compose(amplitude, phases, stage_hint) ==
    /\ calls < MaxCalls
    /\ ComposeCall(amplitude, phases, stage_hint)
    /\ UNCHANGED <<band_processors, scenario, fed>>
    /\ UNCHANGED <<loopVars, tickVars, packetVars, irqVars>>

Next ==
    \E amplitude \in AmpMatrices, phases \in PhaseMatrices, stage_hint \in StageHints :
        Compose(amplitude, phases, stage_hint)

Spec == Init /\ [][Next]_vars

\* a compose call of a long run: the matrix of the call before, or (while
\* the run may still change) another one
SteadyCompose(amplitude) ==
    /\ calls < MaxTicks
    /\ calls > 0 /\ amplitude # band_amplitude => changes < MaxChanges
    /\ ComposeCall(amplitude, PhaseZero, 1)
    /\ UNCHANGED <<band_processors, scenario, fed>>
    /\ UNCHANGED <<loopVars, tickVars, packetVars, irqVars>>

NextSteady == \E amplitude \in SteadyMatrices : SteadyCompose(amplitude)

SpecSteady == Init /\ [][NextSteady]_vars

(***************************************************************************)
(* End-to-end scenarios: every lock-in bank reset, the composer            *)
(* uninitialized; two seconds of one signal on all channels, then one      *)
(* snapshot and one compose                                                *)
(***************************************************************************)
Scenarios == {"alpha", "silence"}

ScenarioSamples == 2 * SAMPLE_RATE_HZ

\* sample n of the scenario's signal, in uV: 10 * sin(2 * pi * 10 * n / 250),
\* or zero
Signal(sc, n) ==
    IF sc = "alpha" THEN RoundDiv(10 * FP * sinf(20 * n), TS) ELSE 0

InitScenario ==
    /\ band_processors = [ch \in Channels |-> LockInReset]
    /\ sigprint_composer = SigprintComposerInit
    /\ current_sigprint = SigprintResultInit
    /\ band_amplitude = [ch \in Channels |-> [b \in Bands |-> 0]]
    /\ band_phases = [ch \in Channels |-> [b \in Bands |-> 0]]
    /\ stage_hint_arg = 0
    /\ calls = 0
    /\ avg_log = <<>>
    /\ order = <<>>
    /\ changes = 0
    /\ scenario \in Scenarios
    /\ fed = 0
    /\ LoopVarsInit(0)

\* band_processors[ch].process(sample) for every channel (lines 841-844)
Feed ==
    /\ fed < ScenarioSamples
    /\ band_processors' =
           [ch \in Channels |-> process(band_processors[ch], Signal(scenario, fed))]
    /\ fed' = fed + 1
    /\ UNCHANGED <<sigprint_composer, current_sigprint, band_amplitude, band_phases,
                   stage_hint_arg, calls, avg_log, order, changes, scenario>>
    /\ UNCHANGED <<loopVars, tickVars, packetVars, irqVars>>

\* the snapshot of every channel (lines 853-855) and the first compose
ScenarioCompose ==
    /\ fed = ScenarioSamples
    /\ calls = 0
    /\ \E snap \in {Snapshot(band_processors, TRUE)} :
           ComposeCall(snap.amplitude, snap.phases, 1)
    /\ UNCHANGED <<band_processors, scenario, fed>>
    /\ UNCHANGED <<loopVars, tickVars, packetVars, irqVars>>

NextScenario == Feed \/ ScenarioCompose

SpecScenario == InitScenario /\ [][NextScenario]_vars

(***************************************************************************)
(* The running firmware: the data-ready interrupt and the iterations of    *)
(* loop(), from the end of setup()                                         *)
(***************************************************************************)
InitLoop ==
    /\ band_processors = [ch \in Channels |-> LockInReset]
    /\ sigprint_composer = SigprintComposerInit
    /\ current_sigprint = SigprintResultInit
    /\ band_amplitude = [ch \in Channels |-> [b \in Bands |-> 0]]
    /\ band_phases = [ch \in Channels |-> [b \in Bands |-> 0]]
    /\ stage_hint_arg = 0
    /\ calls = 0
    /\ avg_log = <<>>
    /\ order = <<>>
    /\ changes = 0
    /\ scenario \in Scenarios
    /\ fed = 0
    /\ \E t \in SetupMillis : LoopVarsInit(t)

\* onDataReady (lines 515-517), on the falling edge of DRDY
onDataReady ==
    /\ g_data_ready' = TRUE
    /\ UNCHANGED composeVars
    /\ UNCHANGED <<millis, last_raw, last_packet_ms, last_sigprint_ms,
                   packet_counter, packet_buffer, stage_state, wifi_ap_mode,
                   written_ms, reference_age_ms, irregular>>
    /\ UNCHANGED <<tickVars, packetVars, irqVars>>

\* the slot read by the loop comparison of band 0 in a compose call with
\* statement order ord, or -1 when the comparison did not run
LoopSlotRead(ord) ==
    LET hits == {i \in 1 .. Len(ord) : ord[i][1] = "loop_compare" /\ ord[i][2] = 0}
    IN  IF hits = {} THEN -1 ELSE ord[CHOOSE i \in hits : TRUE][3]

\* ReadAndProcess with the process calls made on last_raw when no frame
\* was read
ReadAndProcess_Reprocess(got) ==
    LET frame == IF got THEN readFrame(scenario, fed) ELSE last_raw
    IN  [frame |-> frame,
         processors |->
             [ch \in Channels |->
                 process(band_processors[ch], ToMicrovolts(frame[ch]))]]

\* lines 839-846: the frame read and the banks after processing it; a
\* record of values
ReadAndProcess(got) ==
    LET frame == IF got THEN readFrame(scenario, fed) ELSE last_raw
    IN  [frame |-> frame,
         processors |->
             IF got
             THEN [ch \in Channels |->
                      process(band_processors[ch], ToMicrovolts(frame[ch]))]
             ELSE band_processors]

\* PacketDeadline advanced by one interval from the deadline before
PacketDeadline_Scheduled(last_ms, now_ms) == last_ms + PACKET_INTERVAL_MS

\* the time the next packet interval is measured from (line 851):
\* last_packet_ms = now_ms
PacketDeadline(last_ms, now_ms) == now_ms

\* ComposeDue without the fingerprint interval test
ComposeDue_EveryPacket(packet_due, now_ms, last_ms) == packet_due

\* compose is called (line 859): inside the packet block (line 850) and
\* with now_ms - last_sigprint_ms >= SIGPRINT_INTERVAL_MS (line 857)
ComposeDue(packet_due, now_ms, last_ms) ==
    packet_due /\ ElapsedAtLeast(now_ms, last_ms, SIGPRINT_INTERVAL_MS)

\* SinkData with the sink calls placed before the encodePacket call
SinkData_BeforeEncode(before, after) == before

\* the contents of packet_buffer that a sink call of lines 866-872 reads:
\* the call comes after encodePacket has returned
SinkData(before, after) == after

\* the calls of one iteration of loop() in program order (lines 839-880);
\* "process" and "snapshot" stand for the loops over all channels at lines
\* 841-844 and 853-855
LoopSteps(got, packet_due, compose_due, ws_due, serial_due) ==
    (IF got THEN <<"readFrame", "process">> ELSE <<>>)
        \o <<"millis">>
        \o (IF packet_due THEN <<"snapshot">> ELSE <<>>)
        \o (IF compose_due THEN <<"compose">> ELSE <<>>)
        \o (IF packet_due THEN <<"encodePacket">> ELSE <<>>)
        \o (IF ws_due THEN <<"binaryAll">> ELSE <<>>)
        \o (IF serial_due THEN <<"write">> ELSE <<>>)
        \o <<"updateStage">>

\* loop() from its millis() read to its end (lines 848-909), the read dt ms
\* after the read of the iteration before, with serial command cmd pending
\* and serial_room telling whether Serial.availableForWrite() >= PACKET_BYTES;
\* got tells whether lines 839-846 read a frame, read is the frame and the
\* banks they left, frames the count of frames read so far.
\* Each intermediate value is bound once (\E over a singleton) and then used.
LoopTail(dt, cmd, serial_room, got, read, frames) ==
    LET now_ms == millis + dt
        packet_due == ElapsedAtLeast(now_ms, last_packet_ms, PACKET_INTERVAL_MS)
        compose_due == ComposeDue(packet_due, now_ms, last_sigprint_ms)
        ws_due == packet_due /\ websocket_client_count > 0
        serial_due == packet_due /\ serial_room
        head == sigprint_composer.history_index_[0]
    IN  /\ millis' = now_ms
        /\ iterations' = iterations + 1
        /\ steps' = LoopSteps(got, packet_due, compose_due, ws_due, serial_due)
        /\ \E in \in {read} :
           \E snap \in {Snapshot(in.processors, packet_due)} :
           \E r \in {IF compose_due
                     THEN compose(sigprint_composer, snap.amplitude, snap.phases,
                                  stage_state.stage)
                     ELSE [composer |-> sigprint_composer,
                           result |-> current_sigprint,
                           order |-> order]} :
           \E packet \in {IF packet_due
                          THEN encodePacket(in.frame, snap.amplitude, snap.phases,
                                            r.result, stage_state.stage,
                                            stageFrequency(stage_state.stage), now_ms)
                          ELSE packet_buffer} :
              \* lines 839-846
              /\ last_raw' = in.frame
              /\ band_processors' = in.processors
              /\ fed' = frames
              \* lines 850-855
              /\ last_packet_ms' = IF packet_due THEN PacketDeadline(last_packet_ms, now_ms)
                                 ELSE last_packet_ms
              /\ band_amplitude' = snap.amplitude
              /\ band_phases' = snap.phases
              \* lines 857-860
              /\ last_sigprint_ms' = IF compose_due THEN now_ms ELSE last_sigprint_ms
              /\ sigprint_composer' = r.composer
              /\ current_sigprint' = r.result
              /\ order' = r.order
              /\ stage_hint_arg' = IF compose_due THEN stage_state.stage
                                   ELSE stage_hint_arg
              /\ calls' = IF compose_due THEN calls + 1 ELSE calls
              /\ avg_log' =
                     IF compose_due
                     THEN Append(avg_log, [b \in Bands |-> AvgPower(snap.amplitude, b)])
                     ELSE avg_log
              /\ written_ms' = IF compose_due THEN [written_ms EXCEPT ![head] = now_ms]
                               ELSE written_ms
              /\ reference_age_ms' =
                     IF compose_due
                     THEN (IF LoopSlotRead(r.order) = -1 THEN -1
                           ELSE now_ms - written_ms[LoopSlotRead(r.order)])
                     ELSE reference_age_ms
              /\ compose_ms' = IF compose_due THEN <<compose_ms[2], now_ms>>
                               ELSE compose_ms
              \* lines 862-872
              /\ packet_buffer' = packet
              /\ previous_packet' = IF packet_due THEN packet_buffer ELSE previous_packet
              /\ ws_sent' = IF ws_due THEN SinkData(packet_buffer, packet) ELSE ws_sent
              /\ serial_sent' = IF serial_due THEN SinkData(packet_buffer, packet)
                                ELSE serial_sent
        /\ packet_ms' = IF packet_due THEN <<packet_ms[2], packet_ms[3], now_ms>>
                        ELSE packet_ms
        /\ fed_at_packet' =
               IF packet_due
               THEN <<fed_at_packet[2], frames>>
               ELSE fed_at_packet
        \* line 874
        /\ packet_counter' = IF packet_due THEN packet_counter + 1 ELSE packet_counter
        \* line 880
        /\ stage_state' = updateStage(stage_state, now_ms)
        \* lines 883-907
        /\ wifi_ap_mode' = SerialCommand(wifi_ap_mode, cmd)
        /\ UNCHANGED <<changes, scenario, websocket_client_count, packetVars>>

\* one iteration of loop() (lines 831-909) with no interrupt during it
LoopBody(dt, cmd, serial_room) ==
    /\ g_data_ready' = FALSE
    /\ LoopTail(dt, cmd, serial_room, g_data_ready, ReadAndProcess(g_data_ready),
                IF g_data_ready THEN fed + 1 ELSE fed)
    /\ UNCHANGED irqVars

\* an iteration of a long run: a stall of one fingerprint interval every
\* time, the serial port with room for the packet; an iteration that is
\* short, finds no frame or receives a command is irregular
Loop(dt, cmd) ==
    LET odd == (IF dt < PACKET_INTERVAL_MS THEN 1 ELSE 0)
                   + (IF g_data_ready THEN 0 ELSE 1) + (IF cmd = "none" THEN 0 ELSE 1)
    IN  /\ millis + dt <= MaxSeconds * 1000
        /\ irregular + odd <= MaxIrregular
        /\ irregular' = irregular + odd
        /\ LoopBody(dt, cmd, TRUE)

NextLoop ==
    \/ onDataReady
    \/ \E dt \in LoopElapsed, cmd \in Commands : Loop(dt, cmd)

SpecLoop == InitLoop /\ [][NextLoop]_vars

(***************************************************************************)
(* The first iterations of loop() one by one, with the WebSocket clients   *)
(* coming and going and the serial port full or not                        *)
(***************************************************************************)
\* milliseconds between the millis() reads of two loop iterations: under
\* the packet interval, one packet interval, a stall of one fingerprint
\* interval
TickElapsed == {PACKET_INTERVAL_MS - 15, PACKET_INTERVAL_MS, SIGPRINT_INTERVAL_MS}

\* the event types the handler at lines 718-736 switches on
EventTypes == {"WS_EVT_CONNECT", "WS_EVT_DISCONNECT", "WS_EVT_PONG"}

\* the switch at lines 721-735 on websocket_client_count
ClientCount(count, type) ==
    CASE type = "WS_EVT_CONNECT" -> count + 1
      [] type = "WS_EVT_DISCONNECT" -> IF count > 0 THEN count - 1 ELSE count
      [] OTHER -> count

\* the ws.onEvent handler (lines 718-736), run by the network task
onWebSocketEvent(type) ==
    /\ irregular < MaxIrregular
    /\ irregular' = irregular + 1
    /\ websocket_client_count' = ClientCount(websocket_client_count, type)
    /\ UNCHANGED composeVars
    /\ UNCHANGED <<millis, g_data_ready, last_raw, last_packet_ms, last_sigprint_ms,
                   packet_counter, packet_buffer, stage_state, wifi_ap_mode,
                   written_ms, reference_age_ms>>
    /\ UNCHANGED <<iterations, steps, ws_sent, serial_sent, previous_packet,
                   packet_ms, fed_at_packet, compose_ms>>
    /\ UNCHANGED <<packetVars, irqVars>>

\* one of the first MaxIterations iterations of loop(); an iteration that
\* is not one packet interval after the one before, finds no frame, receives
\* a command or finds the serial port full is irregular
Tick(dt, cmd, serial_room) ==
    LET odd == (IF dt = PACKET_INTERVAL_MS THEN 0 ELSE 1)
                   + (IF g_data_ready THEN 0 ELSE 1) + (IF cmd = "none" THEN 0 ELSE 1)
                   + (IF serial_room THEN 0 ELSE 1)
    IN  /\ iterations < MaxIterations
        /\ irregular + odd <= MaxIrregular
        /\ irregular' = irregular + odd
        /\ LoopBody(dt, cmd, serial_room)

NextTicks ==
    \/ onDataReady
    \/ \E type \in EventTypes : onWebSocketEvent(type)
    \/ \E dt \in TickElapsed, cmd \in Commands, serial_room \in BOOLEAN :
           Tick(dt, cmd, serial_room)

SpecTicks == InitLoop /\ [][NextTicks]_vars

(***************************************************************************)
(* The lock-in banks on their own: process and snapshot calls on single    *)
(* channels of band_processors (line 790), in any order                    *)
(***************************************************************************)
\* the channels that receive calls
BankChannels == {0, 3, CHANNEL_COUNT - 1}

\* the samples of the process calls, in uV: 10, -5 and 0
BankSamples == {10 * FP, -5 * FP, 0}

\* ProcessOn with the cursor shared by all banks
ProcessOn_SharedCursor(banks, c, sample_uv) ==
    [d \in Channels |->
        IF d = c THEN process(banks[d], sample_uv)
        ELSE [banks[d] EXCEPT !.index_ = (banks[d].index_ + 1) % WINDOW]]

\* band_processors[c].process(sample_uv) (line 843; lines 141-154): the
\* members of one MultiBandLockIn object
ProcessOn(banks, c, sample_uv) == [banks EXCEPT ![c] = process(banks[c], sample_uv)]

InitBank ==
    /\ band_processors = [ch \in Channels |-> LockInReset]
    /\ sigprint_composer = SigprintComposerInit
    /\ current_sigprint = SigprintResultInit
    /\ band_amplitude = [ch \in Channels |-> [b \in Bands |-> 0]]
    /\ band_phases = [ch \in Channels |-> [b \in Bands |-> 0]]
    /\ stage_hint_arg = 0
    /\ calls = 0
    /\ avg_log = <<>>
    /\ order = <<>>
    /\ changes = 0
    /\ scenario = "none"
    /\ fed = 0
    /\ LoopVarsInit(0)

\* band_processors[c].process(sample_uv); steps is the log of the calls
BankProcess(c, sample_uv) ==
    /\ Len(steps) < MaxBankCalls
    /\ band_processors' = ProcessOn(band_processors, c, sample_uv)
    /\ steps' = Append(steps, <<"process", c>>)
    /\ UNCHANGED <<sigprint_composer, current_sigprint, band_amplitude, band_phases,
                   stage_hint_arg, calls, avg_log, order, changes, scenario, fed>>
    /\ UNCHANGED <<websocket_client_count, iterations, ws_sent, serial_sent,
                   previous_packet, packet_ms, fed_at_packet, compose_ms>>
    /\ UNCHANGED <<loopVars, packetVars, irqVars>>

\* band_processors[c].snapshot(band_amplitude[c], band_phases[c]) (line 854;
\* lines 156-162, a const member function)
BankSnapshot(c) ==
    /\ Len(steps) < MaxBankCalls
    /\ band_amplitude' =
           [band_amplitude EXCEPT ![c] = SnapshotAmplitude(band_processors[c])]
    /\ band_phases' = [band_phases EXCEPT ![c] = SnapshotPhase(band_processors[c])]
    /\ steps' = Append(steps, <<"snapshot", c>>)
    /\ UNCHANGED <<band_processors, sigprint_composer, current_sigprint,
                   stage_hint_arg, calls, avg_log, order, changes, scenario, fed>>
    /\ UNCHANGED <<websocket_client_count, iterations, ws_sent, serial_sent,
                   previous_packet, packet_ms, fed_at_packet, compose_ms>>
    /\ UNCHANGED <<loopVars, packetVars, irqVars>>

NextBank ==
    \/ \E c \in BankChannels, sample_uv \in BankSamples : BankProcess(c, sample_uv)
    \/ \E c \in BankChannels : BankSnapshot(c)

SpecBank == InitBank /\ [][NextBank]_vars

(***************************************************************************)
(* A long run of loop(): the stage rotation                                *)
(***************************************************************************)
\* milliseconds between the millis() reads of two loop iterations: half a
\* stage hold time as a rule, or one packet interval, or a stall longer than
\* the hold time
StageElapsed == {PACKET_INTERVAL_MS, STAGE_HOLD_MS \div 2, STAGE_HOLD_MS + 5000}

\* an iteration of loop() in a run of limit_ms; an iteration that is not
\* half a hold time after the one before or finds no frame is irregular
LongLoop(dt, limit_ms) ==
    LET odd == (IF dt = STAGE_HOLD_MS \div 2 THEN 0 ELSE 1)
                   + (IF g_data_ready THEN 0 ELSE 1)
    IN  /\ millis + dt <= limit_ms
        /\ irregular + odd <= MaxIrregular
        /\ irregular' = irregular + odd
        /\ LoopBody(dt, "none", TRUE)

NextStage ==
    \/ onDataReady
    \/ \E dt \in StageElapsed : LongLoop(dt, MaxStageSeconds * 1000)

SpecStage == InitLoop /\ [][NextStage]_vars

(***************************************************************************)
(* The data-ready interrupt against loop(), statement by statement: the    *)
(* interrupt may fire between any two statements of lines 839-848          *)
(***************************************************************************)
\* milliseconds between the millis() reads of two loop iterations: one
\* sample period, one packet interval
IrqElapsed == {1000 \div SAMPLE_RATE_HZ, PACKET_INTERVAL_MS}

\* ClearDataReady with the flag left as it is
ClearDataReady_Skipped(flag) == flag

\* readFrame, line 560: g_data_ready = false
ClearDataReady(flag) == FALSE

\* onDataReady (lines 515-517) firing between two statements of loop()
DataReady ==
    /\ interrupts < MaxInterrupts
    /\ interrupts' = interrupts + 1
    /\ g_data_ready' = TRUE
    /\ UNCHANGED composeVars
    /\ UNCHANGED <<millis, last_raw, last_packet_ms, last_sigprint_ms,
                   packet_counter, packet_buffer, stage_state, wifi_ap_mode,
                   written_ms, reference_age_ms, irregular>>
    /\ UNCHANGED <<tickVars, packetVars, loop_pc>>

\* line 839: if (ads.available()), available() returning g_data_ready
\* (lines 552-554); steps becomes the calls of the iteration that starts
LoopAvailable ==
    /\ loop_pc = "available"
    /\ iterations < MaxIrqIterations
    /\ loop_pc' = IF g_data_ready THEN "readFrame" ELSE "millis"
    /\ steps' = <<>>
    /\ UNCHANGED <<composeVars, loopVars, packetVars, interrupts>>
    /\ UNCHANGED <<websocket_client_count, iterations, ws_sent, serial_sent,
                   previous_packet, packet_ms, fed_at_packet, compose_ms>>

\* readFrame, lines 557-559: if (!g_data_ready) return false
ReadFrameTest ==
    /\ loop_pc = "readFrame"
    /\ loop_pc' = IF g_data_ready THEN "clear" ELSE "millis"
    /\ UNCHANGED <<composeVars, loopVars, tickVars, packetVars, interrupts>>

\* readFrame, line 560
ReadFrameClear ==
    /\ loop_pc = "clear"
    /\ g_data_ready' = ClearDataReady(g_data_ready)
    /\ loop_pc' = "transfer"
    /\ UNCHANGED composeVars
    /\ UNCHANGED <<millis, last_raw, last_packet_ms, last_sigprint_ms,
                   packet_counter, packet_buffer, stage_state, wifi_ap_mode,
                   written_ms, reference_age_ms, irregular>>
    /\ UNCHANGED <<tickVars, packetVars, interrupts>>

\* readFrame, lines 562-579, returning true, and the process calls of lines
\* 841-844
ReadFrameTransfer ==
    /\ loop_pc = "transfer"
    /\ \E in \in {[frame |-> readFrame(scenario, fed)]} :
          /\ last_raw' = in.frame
          /\ band_processors' =
                 [ch \in Channels |->
                     process(band_processors[ch], ToMicrovolts(in.frame[ch]))]
    /\ fed' = fed + 1
    /\ steps' = <<"readFrame", "process">>
    /\ loop_pc' = "millis"
    /\ UNCHANGED <<sigprint_composer, current_sigprint, band_amplitude, band_phases,
                   stage_hint_arg, calls, avg_log, order, changes, scenario>>
    /\ UNCHANGED <<millis, g_data_ready, last_packet_ms, last_sigprint_ms,
                   packet_counter, packet_buffer, stage_state, wifi_ap_mode,
                   written_ms, reference_age_ms, irregular>>
    /\ UNCHANGED <<websocket_client_count, iterations, ws_sent, serial_sent,
                   previous_packet, packet_ms, fed_at_packet, compose_ms>>
    /\ UNCHANGED <<packetVars, interrupts>>

\* lines 848-909: the rest of the iteration
LoopRest(dt) ==
    /\ loop_pc = "millis"
    /\ LoopTail(dt, "none", TRUE, steps # <<>>,
                [frame |-> last_raw, processors |-> band_processors], fed)
    /\ loop_pc' = "available"
    /\ UNCHANGED <<g_data_ready, irregular, interrupts>>

\* a statement of loop()
LoopStatement ==
    \/ LoopAvailable
    \/ ReadFrameTest
    \/ ReadFrameClear
    \/ ReadFrameTransfer
    \/ \E dt \in IrqElapsed : LoopRest(dt)

NextIrq == DataReady \/ LoopStatement

SpecIrq == InitLoop /\ [][NextIrq]_vars

(***************************************************************************)
(* loop() across the wrap-around of millis(): the firmware after 2^32 ms   *)
(* less a few of silence at the electrodes, run until MaxWrapMs after the  *)
(* counter has passed 0; the history variables start with this run         *)
(***************************************************************************)
\* milliseconds left before millis() wraps, at the last iteration before the
\* run: that iteration sent a packet, the compose before it came 960 ms and
\* the stage change before it 14960 ms earlier
WrapStart == {1, 20, 39}

\* milliseconds between the millis() reads of two loop iterations: under the
\* packet interval, or the packet interval
WrapElapsed == {PACKET_INTERVAL_MS - 25, PACKET_INTERVAL_MS}

\* the composer after a multiple of HISTORY_WINDOW compose calls on silence
WrapComposer ==
    [initialized_ |-> TRUE,
     previous_power_ |-> [b \in Bands |-> 0],
     history_ |-> [b \in Bands |-> [k \in 0 .. (HISTORY_WINDOW - 1) |-> 0]],
     history_index_ |-> [b \in Bands |-> 0],
     history_fill_count_ |-> [b \in Bands |-> HISTORY_WINDOW]]

\* the fingerprint compose returned to loop() on silence in stage stage
WrapFingerprint(stage) ==
    compose(WrapComposer, [ch \in Channels |-> [b \in Bands |-> 0]],
            [ch \in Channels |-> [b \in Bands |-> 0]], stage).result

\* the packet encoded at time t on silence in stage stage (lines 862-864)
WrapPacket(stage, t) ==
    encodePacket([ch \in Channels |-> 0], [ch \in Channels |-> [b \in Bands |-> 0]],
                 [ch \in Channels |-> [b \in Bands |-> 0]], WrapFingerprint(stage),
                 stage, stageFrequency(stage), t)

InitWrap ==
    \E k \in WrapStart, stage \in {3, Len(kStageFrequencies)} :
        /\ band_processors = [ch \in Channels |-> LockInReset]
        /\ sigprint_composer = WrapComposer
        /\ current_sigprint = WrapFingerprint(stage)
        /\ band_amplitude = [ch \in Channels |-> [b \in Bands |-> 0]]
        /\ band_phases = [ch \in Channels |-> [b \in Bands |-> 0]]
        /\ stage_hint_arg = stage
        /\ calls = 0
        /\ avg_log = <<>>
        /\ order = <<>>
        /\ changes = 0
        /\ scenario = "silence"
        /\ fed = 0
        /\ millis = -k
        /\ g_data_ready = FALSE
        /\ last_raw = [ch \in Channels |-> 0]
        /\ last_packet_ms = -k
        /\ last_sigprint_ms = -k - (SIGPRINT_INTERVAL_MS - PACKET_INTERVAL_MS)
        /\ packet_counter = 0
        /\ packet_buffer = WrapPacket(stage, -k)
        /\ stage_state =
               [stage |-> stage,
                last_transition_ms |-> -k - (STAGE_HOLD_MS - PACKET_INTERVAL_MS)]
        /\ wifi_ap_mode = TRUE
        /\ written_ms = [i \in 0 .. (HISTORY_WINDOW - 1) |-> -1]
        /\ reference_age_ms = -1
        /\ irregular = 0
        /\ websocket_client_count = 0
        /\ iterations = 0
        /\ steps = <<>>
        /\ ws_sent = PacketBufferInit
        /\ serial_sent = WrapPacket(stage, -k)
        /\ previous_packet = WrapPacket(stage, -k - PACKET_INTERVAL_MS)
        /\ packet_ms = <<-k - 2 * PACKET_INTERVAL_MS, -k - PACKET_INTERVAL_MS, -k>>
        /\ fed_at_packet = <<0, 0>>
        /\ compose_ms = <<-k - (2 * SIGPRINT_INTERVAL_MS - PACKET_INTERVAL_MS),
                          -k - (SIGPRINT_INTERVAL_MS - PACKET_INTERVAL_MS)>>
        /\ flip_bit = -1
        /\ flipped_crc = -1
        /\ loop_pc = "available"
        /\ interrupts = 0

\* an iteration of loop() until MaxWrapMs after the wrap
WrapLoop(dt) ==
    /\ millis + dt <= MaxWrapMs
    /\ LoopBody(dt, "none", TRUE)
    /\ UNCHANGED irregular

NextWrap ==
    \/ onDataReady
    \/ \E dt \in WrapElapsed : WrapLoop(dt)

SpecWrap == InitWrap /\ [][NextWrap]_vars

(***************************************************************************)
(* encodePacket on its own: the arguments of the call at lines 862-864     *)
(* drawn from a list of cases, the buffer encoded up to MaxEncodes times   *)
(* with different timestamps                                               *)
(***************************************************************************)
\* frames of last_raw: the ends of the 24-bit range and small values; values
\* outside the 24-bit range; silence
FrameEdge ==
    [ch \in Channels |->
        CASE ch = 0 -> -8388608
          [] ch = 1 -> 8388607
          [] ch = 2 -> -1
          [] ch = 3 -> 1
          [] ch = 4 -> 256
          [] ch = 5 -> -65536
          [] ch = 6 -> 447
          [] OTHER -> -447]

FrameWide ==
    [ch \in Channels |->
        CASE ch = 0 -> 16777221
          [] ch = 1 -> -16777219
          [] ch = 2 -> 8388608
          [] ch = 3 -> -8388609
          [] ch = 4 -> 2147483647
          [] ch = 5 -> -2147483647
          [] OTHER -> 0]

FrameList == <<FrameEdge, FrameWide, [ch \in Channels |-> 0]>>

AmpList == <<AmpA, AmpB, AmpC, AmpD>>

PhaseList == <<PhaseZero, PhaseAnti, PhaseLag, PhaseSpread>>

\* results of compose, and a result whose digits are not decimal digits
SigprintComposed ==
    [compose(SigprintComposerInit, AmpB, PhaseLag, 6).result
        EXCEPT !.gate_flags = 5, !.loop_flags = 31]

SigprintWild ==
    [digits |-> [k \in 0 .. 19 |-> (k * 37 + 10) % 256],
     coherence |-> 100 * TS, gate_flags |-> 255, loop_flags |-> 128,
     entropy |-> 3322]

SigprintList == <<SigprintComposed, SigprintWild, SigprintResultInit>>

StageList == <<0, 1, 2, 6, 7, 12, 13, 255>>

\* the n-th case of arguments
PacketCase(n) ==
    [raw |-> FrameList[(n % 3) + 1],
     amplitude |-> AmpList[(n % 4) + 1],
     phases |-> PhaseList[((n \div 4) % 4) + 1],
     sigprint |-> SigprintList[((n \div 2) % 3) + 1],
     stage |-> StageList[(n % 8) + 1]]

\* millis() at the encode: 0x01020304 and 2^31 - 1
Timestamps == {16909060, 2147483647}

\* the payload bits that are flipped in transit: the first and the last
\* bit, and bits at both ends of the sections of the payload
FlipPositions == {0, 7, 191, 192, 1000, 1471, 2751, 2752, 2871, 2944, 2960, 2967}

InitCase(n) ==
    /\ band_processors = [ch \in Channels |-> LockInReset]
    /\ sigprint_composer = SigprintComposerInit
    /\ current_sigprint = PacketCase(n).sigprint
    /\ band_amplitude = PacketCase(n).amplitude
    /\ band_phases = PacketCase(n).phases
    /\ stage_hint_arg = 0
    /\ calls = 0
    /\ avg_log = <<>>
    /\ order = <<>>
    /\ changes = 0
    /\ scenario = "none"
    /\ fed = 0
    /\ millis = 0
    /\ g_data_ready = FALSE
    /\ last_raw = PacketCase(n).raw
    /\ last_packet_ms = 0
    /\ last_sigprint_ms = 0
    /\ packet_counter = 0
    /\ packet_buffer = PacketBufferInit
    /\ stage_state = [stage |-> PacketCase(n).stage, last_transition_ms |-> 0]
    /\ wifi_ap_mode = TRUE
    /\ written_ms = [k \in 0 .. (HISTORY_WINDOW - 1) |-> -1]
    /\ reference_age_ms = -1
    /\ irregular = 0
    /\ websocket_client_count = 0
    /\ iterations = 0
    /\ steps = <<>>
    /\ ws_sent = PacketBufferInit
    /\ serial_sent = PacketBufferInit
    /\ previous_packet = PacketBufferInit
    /\ packet_ms = <<-1, -1, -1>>
    /\ fed_at_packet = <<0, 0>>
    /\ compose_ms = <<-1, -1>>
    /\ flip_bit = -1
    /\ flipped_crc = -1
    /\ loop_pc = "available"
    /\ interrupts = 0

InitPacket == \E n \in 0 .. (MaxCases - 1) : InitCase(n)

\* the encodePacket call of lines 862-864 with now_ms = ts
Encode(ts) ==
    /\ packet_counter < MaxEncodes
    /\ flip_bit = -1
    /\ millis' = ts
    /\ packet_buffer' =
           encodePacket(last_raw, band_amplitude, band_phases, current_sigprint,
                        stage_state.stage, stageFrequency(stage_state.stage), ts)
    /\ previous_packet' = packet_buffer
    /\ packet_counter' = packet_counter + 1
    /\ UNCHANGED composeVars
    /\ UNCHANGED <<g_data_ready, last_raw, last_packet_ms, last_sigprint_ms,
                   stage_state, wifi_ap_mode, written_ms, reference_age_ms, irregular>>
    /\ UNCHANGED <<websocket_client_count, iterations, steps, ws_sent, serial_sent,
                   packet_ms, fed_at_packet, compose_ms>>
    /\ UNCHANGED <<packetVars, irqVars>>

NextPacket == \E ts \in Timestamps : Encode(ts)

SpecPacket == InitPacket /\ [][NextPacket]_vars

(***************************************************************************)
(* A packet in transit: one bit of its payload is flipped, and the         *)
(* receiver recomputes the CRC over the payload it received                *)
(***************************************************************************)
\* data with bit pos % 8 of byte pos \div 8 flipped
FlipAt(data, pos) ==
    [data EXCEPT ![pos \div 8] = Xor8(@, Pow2(pos % 8))]

\* payload[0 .. PAYLOAD_BYTES - 1] of the buffer after encodePacket wrote p
PayloadData(p) == ZeroBased(PayloadWritten(p))

InitCrc == \E n \in 0 .. (MaxCrcCases - 1) : InitCase(n)

FlipBit(pos) ==
    /\ packet_counter >= 1
    /\ flip_bit = -1
    /\ flip_bit' = pos
    /\ flipped_crc' = crc16_ccitt(FlipAt(PayloadData(packet_buffer), pos), PAYLOAD_BYTES)
    /\ UNCHANGED <<composeVars, loopVars, tickVars, irqVars>>

NextCrc ==
    \/ \E ts \in Timestamps : Encode(ts)
    \/ \E pos \in FlipPositions : FlipBit(pos)

SpecCrc == InitCrc /\ [][NextCrc]_vars

(***************************************************************************)
(* Properties                                                              *)
(***************************************************************************)
\* avg_power of band b in compose call n (n = 1 is the first call)
MeanOf(n, b) == avg_log[n][b]

\* |m - p| / max(p, 1e-3) >= pct / 100
StepAtLeast(m, p, pct) == 100 * Abs(m - p) >= pct * Max2(p, Milli)

\* |m - p| / max(p, 1e-3) > pct / 100
StepAbove(m, p, pct) == 100 * Abs(m - p) > pct * Max2(p, Milli)

\* first and last position of statement stmt of band b in the order of the
\* last compose call (0 when it did not run)
PosOf(stmt, b) ==
    LET hits == {i \in 1 .. Len(order) : order[i][1] = stmt /\ order[i][2] = b}
    IN  IF hits = {} THEN 0 ELSE CHOOSE i \in hits : \A j \in hits : i <= j

\* the index that statement stmt of band b read or wrote in the last call
SlotOf(stmt, b) == order[PosOf(stmt, b)][3]

\* C1: after any sequence of compose calls, each of the 20 digits of the
\* result is in 0..9 (the checksum digits and digit 17 included)
C1_DigitsInRange ==
    \A k \in 0 .. 19 : current_sigprint.digits[k] \in 0 .. 9

\* C1 witness: a call whose raw values leave the ranges (phase metric 100,
\* alpha ratio 198, frontal share below 0) and whose stage_hint is 255
C1_Witness ==
    /\ calls > 0
    /\ band_amplitude = AmpD
    /\ band_phases = PhaseLag
    /\ stage_hint_arg = 255
    /\ PhaseMetricRaw(band_phases) = 100
    /\ current_sigprint.digits[0] = 9
    /\ current_sigprint.digits[17] = 5

\* C2: with cs = (sum of digits 0..17) mod 97, digit 18 is cs div 10 and
\* digit 19 is cs mod 10, so the checksum field lies in 00..96
C2_Checksum ==
    LET cs == SumSeq([k \in 1 .. 18 |-> current_sigprint.digits[k - 1]]) % 97
    IN  /\ current_sigprint.digits[18] = cs \div 10
        /\ current_sigprint.digits[19] = cs % 10
        /\ 10 * current_sigprint.digits[18] + current_sigprint.digits[19] \in 0 .. 96

\* C2 witness: a result whose first 18 digits sum to 97 or more, so that the
\* modulus acts
C2_Witness ==
    /\ calls > 0
    /\ SumSeq([k \in 1 .. 18 |-> current_sigprint.digits[k - 1]]) >= 97
    /\ current_sigprint.digits[18] = 0

\* C3: the first compose call returns gate_flags = 0 and loop_flags = 0 for
\* every input, and initialized_ is true from the first call on
C3_FirstCallSuppressed ==
    /\ calls = 1 => current_sigprint.gate_flags = 0 /\ current_sigprint.loop_flags = 0
    /\ sigprint_composer.initialized_ <=> calls >= 1

\* C3 witness: a first call whose means are far from the zero previous power
C3_Witness ==
    /\ calls = 1
    /\ \A b \in Bands : StepAtLeast(MeanOf(1, b), 0, 35)
    /\ current_sigprint.gate_flags = 0
    /\ sigprint_composer.initialized_

\* C4: in every call but the first, gate bit b is set iff
\* |m - p| / max(p, 0.001) >= 0.35, p being the mean of the call before
C4_GateIff ==
    calls >= 2 =>
        \A b \in Bands :
            TestBit(current_sigprint.gate_flags, b)
                <=> StepAtLeast(MeanOf(calls, b), MeanOf(calls - 1, b), 35)

\* C4 witness: the second call doubles the alpha mean recorded by the first
\* call (bit 2 set) and repeats the delta mean (bit 0 clear); the matrices of
\* the two calls differ
C4_Witness ==
    /\ calls = 2
    /\ MeanOf(1, 2) >= Milli
    /\ MeanOf(2, 2) = 2 * MeanOf(1, 2)
    /\ MeanOf(2, 0) = MeanOf(1, 0)
    /\ changes = 1
    /\ TestBit(current_sigprint.gate_flags, 2)
    /\ ~TestBit(current_sigprint.gate_flags, 0)

\* C5 as stated: a band whose mean steps by more than 5% between two
\* consecutive calls has its gate bit set in the second call
C5_GateOnStep5 ==
    calls >= 2 =>
        \A b \in Bands :
            StepAbove(MeanOf(calls, b), MeanOf(calls - 1, b), 5)
                => TestBit(current_sigprint.gate_flags, b)

\* C5 amended: a band whose mean steps by at least 35% of
\* max(previous mean, 0.001) between two consecutive calls has its gate bit
\* set in the second call
C5_GateOnStep35 ==
    calls >= 2 =>
        \A b \in Bands :
            StepAtLeast(MeanOf(calls, b), MeanOf(calls - 1, b), 35)
                => TestBit(current_sigprint.gate_flags, b)

\* C5 witness: beta steps by 36%, between the thresholds 0.35 and 0.5, and
\* its bit is set
C5_Witness ==
    /\ calls >= 2
    /\ StepAtLeast(MeanOf(calls, 3), MeanOf(calls - 1, 3), 35)
    /\ ~StepAtLeast(MeanOf(calls, 3), MeanOf(calls - 1, 3), 50)
    /\ TestBit(current_sigprint.gate_flags, 3)

\* C6 as stated: after two seconds of the in-phase 10 Hz sinusoid the first
\* compose returns gate_flags with bit 2 set
C6_FirstGateSet ==
    scenario = "alpha" /\ fed = ScenarioSamples /\ calls = 1
        => TestBit(current_sigprint.gate_flags, 2)

\* C6 amended: that first compose returns gate_flags = 0, and records the
\* alpha mean as previous_power_[2]
C6_FirstGateClear ==
    scenario = "alpha" /\ fed = ScenarioSamples /\ calls = 1
        => /\ current_sigprint.gate_flags = 0
           /\ sigprint_composer.previous_power_[2] = MeanOf(1, 2)

\* C6 witness: the first compose of the alpha scenario, the alpha mean
\* within 5% of 10 uV
C6_Witness ==
    /\ scenario = "alpha"
    /\ fed = ScenarioSamples
    /\ calls = 1
    /\ ~StepAbove(MeanOf(1, 2), 10 * FP, 5)
    /\ current_sigprint.gate_flags = 0

\* C7: while every call so far received the same amplitude matrix, every
\* call from the 21st on returns loop_flags with all five bits set
C7_SteadyLoop ==
    changes = 0 /\ calls >= 21 => current_sigprint.loop_flags = 31

\* C7 witness: the 21st call, and a call after the head has wrapped
C7_Witness ==
    /\ changes = 0
    /\ calls = HISTORY_WINDOW + LOOKBACK + 1
    /\ sigprint_composer.history_fill_count_[2] = HISTORY_WINDOW
    /\ current_sigprint.loop_flags = 31

\* C8: in call n, loop bit b is clear when n <= 20, and when n >= 21 it is
\* set iff |m_n - r| / max(r, 0.001) <= 0.05, r being the mean of call n - 20
C8_LoopIff ==
    calls >= 1 =>
        \A b \in Bands :
            TestBit(current_sigprint.loop_flags, b)
                <=> /\ calls >= LOOKBACK + 1
                    /\ ~StepAbove(MeanOf(calls, b), MeanOf(Max2(calls - LOOKBACK, 1), b), 5)

\* C8 witness: after the head has wrapped and the fill count has saturated,
\* a call that differs from the call 20 before it: theta within 5% (bit set),
\* alpha not (bit clear); the slot read was written twice
C8_Witness ==
    /\ calls = HISTORY_WINDOW + LOOKBACK + 1
    /\ sigprint_composer.history_fill_count_[1] = HISTORY_WINDOW
    /\ MeanOf(calls, 1) # MeanOf(calls - LOOKBACK, 1)
    /\ TestBit(current_sigprint.loop_flags, 1)
    /\ ~TestBit(current_sigprint.loop_flags, 2)

\* C10 as stated: in each per-band iteration the gate comparison runs before
\* previous_power_ is stored and the loop comparison runs before the history
\* slot is stored
C10_CompareBeforeStore ==
    \A b \in Bands :
        /\ PosOf("gate_compare", b) # 0
               => PosOf("gate_compare", b) < PosOf("previous_power_store", b)
        /\ PosOf("loop_compare", b) # 0
               => PosOf("loop_compare", b) < PosOf("history_store", b)

\* C10 amended: the gate comparison runs before previous_power_ is stored;
\* the history slot at head is stored before the loop comparison, which
\* reads another slot than the one just stored
C10_GateBeforeStoreLoopAfter ==
    \A b \in Bands :
        /\ PosOf("gate_compare", b) # 0
               => PosOf("gate_compare", b) < PosOf("previous_power_store", b)
        /\ PosOf("loop_compare", b) # 0
               => /\ PosOf("history_store", b) < PosOf("loop_compare", b)
                  /\ SlotOf("loop_compare", b) # SlotOf("history_store", b)

\* C10 witness: a call in which both comparisons ran for alpha
C10_Witness ==
    /\ calls >= LOOKBACK + 1
    /\ PosOf("gate_compare", 2) # 0
    /\ PosOf("loop_compare", 2) # 0
    /\ PosOf("history_store", 2) # 0

\* C9 as stated: the reference value of a loop comparison was recorded
\* about 0.8 s of millis() time before the compose call that reads it
\* (between 0.4 s and 1.6 s)
C9_ReferenceAbout800ms ==
    reference_age_ms # -1 =>
        /\ 2 * reference_age_ms >= 800
        /\ reference_age_ms <= 2 * 800

\* C9 witness: the 21st compose of the running firmware made a loop
\* comparison, and the slot it read was written 20 fingerprint intervals or
\* more before
C9_Witness ==
    /\ calls >= LOOKBACK + 1
    /\ reference_age_ms >= LOOKBACK * SIGPRINT_INTERVAL_MS

\* C11 as stated: in the silence scenario (reset banks, uninitialized
\* composer, 500 zero samples on all channels) every snapshot amplitude is 0
\* and the first compose returns coherence <= 0.001, digits 8..11 equal to
\* 0,0,0,0 and gate_flags = 0
C11_SilenceZeroCoherence ==
    scenario = "silence" /\ fed = ScenarioSamples /\ calls = 1
        => /\ \A ch \in Channels : \A b \in Bands : band_amplitude[ch][b] = 0
           /\ 1000 * current_sigprint.coherence <= 100 * TS
           /\ \A k \in 8 .. 11 : current_sigprint.digits[k] = 0
           /\ current_sigprint.gate_flags = 0

\* C11 witness: the first compose of the silence scenario; every amplitude
\* and every phase of the snapshot is 0 (atan2f(0, 0) = 0), so the eight unit
\* vectors of each band coincide: coherence is 1.0 and digits 8..11 are
\* 9,9,9,9
C11_Witness ==
    /\ scenario = "silence"
    /\ fed = ScenarioSamples
    /\ calls = 1
    /\ \A ch \in Channels : \A b \in Bands :
           band_amplitude[ch][b] = 0 /\ band_phases[ch][b] = 0
    /\ current_sigprint.coherence = 100 * TS
    /\ \A k \in 8 .. 11 : current_sigprint.digits[k] = 9
    /\ current_sigprint.gate_flags = 0

\* the bytes data[lo .. lo + Len(seq) - 1] are those of seq
Holds(data, lo, seq) == \A i \in 1 .. Len(seq) : data[lo + i - 1] = seq[i]

\* the bytes data[lo .. lo + Len(seq) - 1] are those of seq, and seq has
\* size bytes
Section(data, lo, seq, size) == Len(seq) = size /\ Holds(data, lo, seq)

\* the little-endian value of data[lo .. lo + n - 1]
RECURSIVE ReadLE(_, _, _)
ReadLE(data, lo, n) ==
    IF n = 0 THEN 0 ELSE data[lo] + 256 * ReadLE(data, lo + 1, n - 1)

\* the frame data and the written payload (cursor = Len(written)) hold the
\* arguments of the encodePacket call at lines 862-864 in the stated layout
PacketLayout(data, written) ==
    /\ Len(written) = PAYLOAD_BYTES
    /\ PAYLOAD_BYTES = 371
    /\ DOMAIN data = 0 .. 382
    /\ Holds(data, HEADER_SIZE, written)
    \* header
    /\ data[0] = 71 /\ data[1] = 83
    /\ data[2] = 1
    /\ data[3] = 1
    /\ ReadLE(data, 4, 4) = millis
    /\ ReadLE(data, 8, 2) = 371
    \* payload
    /\ Section(data, 12, RawSection(last_raw), 24)
    /\ Section(data, 12 + 24, AmplitudeSection(band_amplitude), 160)
    /\ Section(data, 12 + 184, PhaseSection(band_phases), 160)
    /\ \A i \in 0 .. 9 :
           data[12 + 344 + i] = 16 * (current_sigprint.digits[2 * i] % 10)
                                    + (current_sigprint.digits[2 * i + 1] % 10)
    /\ Section(data, 12 + 354, Float32LE(current_sigprint.coherence, 100 * TS), 4)
    /\ data[12 + 358] = current_sigprint.gate_flags
    /\ data[12 + 359] = current_sigprint.loop_flags
    /\ Section(data, 12 + 360, Float32LE(current_sigprint.entropy, FP), 4)
    /\ Holds(data, 12 + 364, <<0, 0, 0, 0>>)
    /\ data[12 + 368] = stage_state.stage
    /\ ReadLE(data, 12 + 369, 2) = stageFrequency(stage_state.stage)

\* C12: after every encodePacket call the buffer is a 383-byte frame; the
\* cursor stands at 371 at the sanity check; the payload holds raw samples
\* (24), amplitudes (160), phases (160), BCD digits (10), coherence (4), gate
\* (1), loop (1), entropy (4), four zero bytes, stage (1), stage frequency
\* (2) in this order; the header holds magic 0x5347 LE, version 1, type 1,
\* the caller's timestamp as u32 LE and the length 371 as u16 LE
C12_PacketLayout ==
    packet_counter > 0 =>
        PacketLayout(PacketData(packet_buffer), PayloadWritten(packet_buffer))

\* C12 witness: an encoded packet with timestamp 0x01020304 (bytes 4, 3, 2,
\* 1), whose amplitude and phase sections differ, whose digits are packed
\* modulo 10, at stage 255
C12_Witness ==
    /\ packet_counter > 0
    /\ millis = 16909060
    /\ Holds(PacketData(packet_buffer), 4, <<4, 3, 2, 1>>)
    /\ AmplitudeSection(band_amplitude) # PhaseSection(band_phases)
    /\ current_sigprint = SigprintWild
    /\ stage_state.stage = 255
    /\ PacketData(packet_buffer)[12 + 344] = 16 * 0 + 7

\* CRC-16/CCITT-FALSE by its definition: a 16-bit register, initially
\* 0xFFFF, takes the message one bit at a time, most significant bit of
\* each byte first; the register is shifted left, and 0x1021 is added
\* (XOR) when the bit shifted out differs from the message bit; the register
\* is the result, not reflected and not inverted
RegisterStep(reg, bit) ==
    IF (reg \div 32768) # bit THEN Xor16((2 * reg) % 65536, 4129)
    ELSE (2 * reg) % 65536

\* the register after the message bits lo .. hi - 1 of data (bit n is bit
\* 7 - n % 8 of byte n \div 8), the lower half taken first
RECURSIVE RegisterOver(_, _, _, _)
RegisterOver(reg, data, lo, hi) ==
    IF reg \notin 0 .. 65535 \/ hi = lo THEN reg
    ELSE IF hi = lo + 1
         THEN RegisterStep(reg, (data[lo \div 8] \div Pow2(7 - (lo % 8))) % 2)
    ELSE RegisterOver(RegisterOver(reg, data, lo, (lo + hi) \div 2), data,
                      (lo + hi) \div 2, hi)

CcittFalse(data, length) == RegisterOver(65535, data, 0, 8 * length)

\* the ASCII string "123456789"
CheckString == [i \in 0 .. 8 |-> 49 + i]

\* payload[0 .. PAYLOAD_BYTES - 1] of the frame data
PayloadIn(data) == [i \in 0 .. (PAYLOAD_BYTES - 1) |-> data[HEADER_SIZE + i]]

\* header bytes 10..11 of data hold the CRC of the 371 payload bytes of data
CrcCoversPayload(data) ==
    /\ ReadLE(data, 10, 2) = crc16_ccitt(PayloadIn(data), 371)
    /\ ReadLE(data, 10, 2) = CcittFalse(PayloadIn(data), 371)

\* two frames with the same payload have the same header bytes 10..11
SamePayloadSameCrc(data, before) ==
    PayloadIn(data) = PayloadIn(before)
        => ReadLE(data, 10, 2) = ReadLE(before, 10, 2)

\* C13: after every encodePacket call, header bytes 10..11 hold (LE) the
\* CRC-16/CCITT-FALSE (check value 0x29B1) of exactly the 371 payload bytes
\* in the buffer; the header is not covered: a packet with the payload of
\* the packet before and another timestamp carries the same CRC
C13_CrcOverPayload ==
    /\ crc16_ccitt(CheckString, 9) = 10673
    /\ packet_counter > 0 => CrcCoversPayload(PacketData(packet_buffer))
    /\ packet_counter > 1 =>
           SamePayloadSameCrc(PacketData(packet_buffer), PacketData(previous_packet))

\* C13 witness: two packets of the same nonzero payload with different
\* timestamps, so that their headers differ in bytes 4..7
C13_Witness ==
    /\ packet_counter = 2
    /\ packet_buffer.timestamp_ms # previous_packet.timestamp_ms
    /\ last_raw = FrameEdge
    /\ PayloadWritten(packet_buffer) = PayloadWritten(previous_packet)
    /\ ReadLE(PacketData(packet_buffer), 4, 3) # ReadLE(PacketData(previous_packet), 4, 3)
    /\ ReadLE(PacketData(packet_buffer), 10, 2)
           = crc16_ccitt(PayloadData(packet_buffer), PAYLOAD_BYTES)

\* every one-byte message and each of its eight single-bit flips have
\* different CRCs
OneByteFlipsDetected ==
    \A byte \in 0 .. 255 : \A bit \in 0 .. 7 :
        CrcByte(CRC16_INIT, Xor8(byte, Pow2(bit))) # CrcByte(CRC16_INIT, byte)

\* C14: the CRC that crc16_ccitt computes over the payload with one bit
\* flipped differs from the CRC of the payload as encoded, so it differs
\* from header bytes 10..11
C14_SingleBitFlip ==
    /\ OneByteFlipsDetected
    /\ flip_bit # -1 =>
           /\ flipped_crc # crc16_ccitt(PayloadData(packet_buffer), PAYLOAD_BYTES)
           /\ flipped_crc # ReadLE(PacketData(packet_buffer), 10, 2)

\* C14 witness: the last bit of the first payload byte of a nonzero payload
\* is flipped (the flip passes through all 371 bytes of the CRC loop)
C14_Witness ==
    /\ flip_bit = 7
    /\ last_raw = FrameEdge
    /\ flipped_crc \in 0 .. 65535
    /\ FlipAt(PayloadData(packet_buffer), flip_bit)[0]
           = PayloadData(packet_buffer)[0] + 128

\* the dashboard's reading of a BCD byte (lines 658-662): (bcd >> 4) & 0x0F,
\* then bcd & 0x0F
Nibbles(bcd) == <<(bcd \div 16) % 16, bcd % 16>>

\* digit k of the frame data, read as the dashboard reads it
DigitRead(data, k) == Nibbles(data[HEADER_SIZE + 344 + (k \div 2)])[(k % 2) + 1]

\* raw sample c of the frame data: payload bytes 3c .. 3c + 2 as a
\* little-endian 24-bit value, sign-extended from bit 23
SampleRead(data, c) ==
    SignExtend24(data[HEADER_SIZE + 3 * c + 2], data[HEADER_SIZE + 3 * c + 1],
                 data[HEADER_SIZE + 3 * c])

Int24 == -8388608 .. 8388607

RoundTrip(data) ==
    /\ \A c \in Channels :
           /\ last_raw[c] \in Int24 => SampleRead(data, c) = last_raw[c]
           /\ last_raw[c] = -8388608 => Holds(data, HEADER_SIZE + 3 * c, <<0, 0, 128>>)
           /\ ReadLE(data, HEADER_SIZE + 3 * c, 3) = last_raw[c] % 16777216
    /\ (\A k \in 0 .. 19 : current_sigprint.digits[k] \in 0 .. 9)
           => \A k \in 0 .. 19 : DigitRead(data, k) = current_sigprint.digits[k]

\* C15: from an encoded packet, the sign-extended little-endian 24-bit
\* read of payload bytes 3c .. 3c + 2 returns raw sample c when it is in the
\* signed 24-bit range (-8388608 is stored as 0x00 0x00 0x80), the nibbles
\* of payload bytes 344 .. 353 return the 20 digits in order when they are
\* in 0..9, and a sample outside the range is stored as its low 24 bits
C15_RoundTrip ==
    packet_counter > 0 => RoundTrip(PacketData(packet_buffer))

\* C15 witness: a packet of the frame with both ends of the 24-bit range
\* and of a composed fingerprint whose digits are not all equal; the first
\* sample is read back as -8388608
C15_Witness ==
    /\ packet_counter > 0
    /\ last_raw = FrameEdge
    /\ current_sigprint = SigprintComposed
    /\ \E k \in 0 .. 18 : current_sigprint.digits[k] # current_sigprint.digits[k + 1]
    /\ SampleRead(PacketData(packet_buffer), 0) = -8388608
    /\ SampleRead(PacketData(packet_buffer), 1) = 8388607

\* entry n (from 0) of [222, 333, 1111, 2222, 11111, 22222]
StageEntry(n) ==
    CASE n = 0 -> 222
      [] n = 1 -> 333
      [] n = 2 -> 1111
      [] n = 3 -> 2222
      [] n = 4 -> 11111
      [] n = 5 -> 22222

\* the frequency C16 states for a stage value
StatedFrequency(stage) == IF stage = 0 THEN 0 ELSE StageEntry((stage - 1) % 6)

\* stageFrequency agrees with the stated frequency on every uint8_t value
StageFrequencyAsStated ==
    /\ \A stage \in 0 .. 255 : stageFrequency(stage) = StatedFrequency(stage)
    /\ stageFrequency(7) = 222

\* the stage byte and the stage frequency field of the frame data
StageFieldsIn(data) ==
    /\ data[HEADER_SIZE + 368] = stage_state.stage
    /\ ReadLE(data, HEADER_SIZE + 369, 2) = StatedFrequency(stage_state.stage)

\* C16: for every stage value 0..255 the stage frequency written into the
\* packet (payload bytes 369..370) is 0 for stage 0 and otherwise entry
\* (stage - 1) mod 6 of [222, 333, 1111, 2222, 11111, 22222]; stage 7 gives
\* 222
C16_StageFrequency ==
    /\ StageFrequencyAsStated
    /\ packet_counter > 0 => StageFieldsIn(PacketData(packet_buffer))

\* C16 witness: a packet encoded at stage 7, its frequency field 222 (bytes
\* 222, 0)
C16_Witness ==
    /\ packet_counter > 0
    /\ stage_state.stage = 7
    /\ Holds(PacketData(packet_buffer), HEADER_SIZE + 368, <<7, 222, 0>>)


\* the position of a call in the steps of the last iteration (0 when the
\* call was not made)
StepAt(call) ==
    LET hits == {i \in 1 .. Len(steps) : steps[i] = call}
    IN  IF hits = {} THEN 0 ELSE CHOOSE i \in hits : TRUE

\* call a was made, and before call b
Precedes(a, b) == StepAt(a) > 0 /\ StepAt(a) < StepAt(b)

\* a sink call of the last iteration came after encodePacket and received
\* the packet that encodePacket wrote in that iteration
SinkAfterEncode(call, sent) ==
    StepAt(call) > 0 =>
        /\ Precedes("encodePacket", call)
        /\ sent = packet_buffer
        /\ sent.payload_length = PAYLOAD_BYTES
        /\ sent.timestamp_ms = millis

\* C17: in a packet tick the process calls of the iteration come first, then
\* the snapshot of all channels, then compose when it is due, then
\* encodePacket, and the WebSocket and serial sinks are called only after
\* encodePacket and receive the packet it wrote in that tick
C17_TickOrder ==
    /\ StepAt("encodePacket") > 0 =>
           /\ StepAt("process") > 0 => Precedes("process", "snapshot")
           /\ Precedes("snapshot", "encodePacket")
           /\ StepAt("compose") > 0 =>
                  Precedes("snapshot", "compose") /\ Precedes("compose", "encodePacket")
           /\ packet_buffer.timestamp_ms = millis
    /\ StepAt("encodePacket") = 0 =>
           StepAt("snapshot") = 0 /\ StepAt("compose") = 0
               /\ StepAt("binaryAll") = 0 /\ StepAt("write") = 0
    /\ StepAt("compose") > 0 => compose_ms[2] = millis
    /\ SinkAfterEncode("binaryAll", ws_sent)
    /\ SinkAfterEncode("write", serial_sent)

\* C17 witness: a second packet tick that read a frame, composed, encoded and
\* called both sinks, the packet different from the one before
C17_Witness ==
    /\ steps = <<"readFrame", "process", "millis", "snapshot", "compose",
                 "encodePacket", "binaryAll", "write", "updateStage">>
    /\ packet_counter >= 2
    /\ ws_sent = packet_buffer
    /\ serial_sent = packet_buffer
    /\ previous_packet # packet_buffer


\* the calls of encodePacket in the steps of the last iteration
EncodeCalls == Cardinality({i \in 1 .. Len(steps) : steps[i] = "encodePacket"})

\* the last three packets are at least one packet interval apart
PacketsApart ==
    \A i \in 1 .. 2 :
        packet_ms[i] # -1 => packet_ms[i + 1] - packet_ms[i] >= PACKET_INTERVAL_MS

\* C18: no catch-up after a missed packet deadline: an iteration of loop()
\* emits at most one packet (so there are never more packets than
\* iterations), and a packet emitted at time t is followed by the next one
\* no earlier than t + 40 ms, however late t was
C18_NoCatchUp ==
    /\ EncodeCalls <= 1
    /\ packet_counter <= iterations
    /\ PacketsApart

\* C18 witness: a packet, a stall of 1000 ms that misses 24 deadlines, one
\* packet at the end of the stall, and an iteration 25 ms later that emits
\* none
C18_Witness ==
    /\ packet_ms[2] # -1
    /\ packet_ms[3] - packet_ms[2] = SIGPRINT_INTERVAL_MS
    /\ millis = packet_ms[3] + 25
    /\ EncodeCalls = 0
    /\ packet_counter < iterations


\* the fingerprint fields of packet p are those of result r
Carries(p, r) ==
    /\ p.digits = r.digits
    /\ p.coherence = r.coherence
    /\ p.gate_flags = r.gate_flags
    /\ p.loop_flags = r.loop_flags
    /\ p.entropy = r.entropy

\* C19: every emitted packet carries the result of the most recent compose
\* call, and the all-zero default before any compose; compose runs only in a
\* packet tick, two consecutive compose calls are at least 1000 ms apart,
\* and a packet of a tick without compose repeats the digits and the flags
\* of the packet before
C19_LatestFingerprint ==
    /\ packet_counter > 0 => Carries(packet_buffer, current_sigprint)
    /\ (packet_counter > 0 /\ calls = 0) => Carries(packet_buffer, SigprintResultInit)
    /\ StepAt("compose") > 0 => StepAt("encodePacket") > 0
    /\ calls <= packet_counter
    /\ compose_ms[1] # -1 => compose_ms[2] - compose_ms[1] >= SIGPRINT_INTERVAL_MS
    /\ (EncodeCalls = 1 /\ StepAt("compose") = 0 /\ packet_counter >= 2) =>
           Carries(packet_buffer, previous_packet)

\* C19 witness: a packet tick without compose after a compose whose result
\* is not the default; the packet repeats the fingerprint of the packet before
C19_Witness ==
    /\ EncodeCalls = 1
    /\ StepAt("compose") = 0
    /\ calls >= 1
    /\ packet_counter >= 2
    /\ current_sigprint # SigprintResultInit
    /\ Carries(packet_buffer, previous_packet)
    /\ packet_buffer.timestamp_ms = previous_packet.timestamp_ms + PACKET_INTERVAL_MS


\* an iteration of loop() that found no frame made no process call and left
\* last_raw, the lock-in banks and the count of frames read as they were
SkipLeavesState ==
    (iterations' = iterations + 1 /\ ~g_data_ready) =>
        /\ StepAt("readFrame")' = 0
        /\ StepAt("process")' = 0
        /\ last_raw' = last_raw
        /\ band_processors' = band_processors
        /\ fed' = fed
        /\ g_data_ready' = FALSE

\* a packet emitted with no frame read since the packet before carries the
\* raw samples, amplitudes and phases of that packet
RepeatsSnapshot ==
    (EncodeCalls = 1 /\ packet_counter >= 2 /\ fed_at_packet[1] = fed_at_packet[2]) =>
        /\ packet_buffer.raw_samples = previous_packet.raw_samples
        /\ packet_buffer.amplitude = previous_packet.amplitude
        /\ packet_buffer.phases = previous_packet.phases

\* C20: an iteration of loop() in which available() is false makes no
\* process call and leaves last_raw and the 8 lock-in banks unchanged, and a
\* packet emitted while no frame has been read since the previous packet
\* carries the same raw samples, amplitudes and phases as that packet
C20_SkippedFrame == [][SkipLeavesState]_vars /\ [](RepeatsSnapshot)

\* C20 witness: after frames with a signal, a packet tick that found no
\* frame; its packet repeats the nonzero samples and amplitudes of the
\* packet before
C20_Witness ==
    /\ EncodeCalls = 1
    /\ StepAt("process") = 0
    /\ packet_counter >= 2
    /\ fed >= 2
    /\ fed_at_packet[1] = fed_at_packet[2]
    /\ \E ch \in Channels : packet_buffer.raw_samples[ch] # 0
    /\ \E ch \in Channels, b \in Bands : packet_buffer.amplitude[ch][b] # 0
    /\ packet_buffer.raw_samples = previous_packet.raw_samples
    /\ packet_buffer.amplitude = previous_packet.amplitude
    /\ packet_buffer.timestamp_ms > previous_packet.timestamp_ms

\* the table index read by the process call before the one that reads i
CursorBefore(i) == (i + WINDOW - 1) % WINDOW

\* the table entries of band at index i are the reference one sample step
\* after the entries at the index before i
TableContinues(band, i) ==
    /\ ref_sin(band, i) = sinf(CenterHalfHz[band + 1] * (CursorBefore(i) + 1))
    /\ ref_cos(band, i) = cosf(CenterHalfHz[band + 1] * (CursorBefore(i) + 1))

\* center_hz times one second is a whole number of cycles (GRID grid angles
\* are one cycle)
WholeCycles(band) == (CenterHalfHz[band + 1] * WINDOW) % GRID = 0

\* C21: for every band the 250-entry reference tables cycle exactly:
\* center_hz times one second is a whole number of cycles, and the entries the
\* next process call reads continue the reference of the call before by one
\* sample step, also when the cursor has wrapped from 249 to 0
C21_TablesCycle ==
    fed > 0 =>
        \A ch \in Channels, band \in Bands :
            WholeCycles(band) /\ TableContinues(band, band_processors[ch].index_)

\* C21 witness: the cursor has wrapped after 250 process calls; the theta,
\* alpha, beta and gamma tables continue, the delta table (2.5 cycles in one
\* second) restarts half a cycle off: its cos entry is 1 where the
\* reference has reached -1
C21_Witness ==
    /\ fed = WINDOW
    /\ \A ch \in Channels : band_processors[ch].index_ = 0
    /\ \A band \in 1 .. 4 : WholeCycles(band) /\ TableContinues(band, 0)
    /\ ~WholeCycles(0)
    /\ ref_cos(0, 0) = TS
    /\ cosf(CenterHalfHz[1] * WINDOW) = -TS

\* the last call of the log is call on channel c
LastCall(log, call, c) == Len(log) > 0 /\ log[Len(log)] = <<call, c>>

\* the log holds a snapshot of channel c with no process call on c after it
SnapshotStands(log, c) ==
    \E i \in 1 .. Len(log) :
        /\ log[i] = <<"snapshot", c>>
        /\ \A j \in (i + 1) .. Len(log) : log[j] # <<"process", c>>

\* a process call on channel c leaves the banks of all other channels as
\* they were
ProcessIsolated ==
    \A c \in Channels :
        LastCall(steps', "process", c) =>
            \A d \in Channels \ {c} : band_processors'[d] = band_processors[d]

\* a snapshot call changes no bank, and returns what the snapshot of the
\* same channel before it returned when no process call on that channel came
\* in between
SnapshotPure ==
    \A c \in Channels :
        LastCall(steps', "snapshot", c) =>
            /\ band_processors' = band_processors
            /\ SnapshotStands(steps, c) =>
                   /\ band_amplitude'[c] = band_amplitude[c]
                   /\ band_phases'[c] = band_phases[c]

\* C22: a process call on channel c changes no state of any other channel's
\* bank; snapshot changes no bank state at all, so two snapshots of a channel
\* with no process call on it in between return identical values, whatever
\* calls on other channels come in between
C22_IsolatedBanks == [][ProcessIsolated /\ SnapshotPure]_vars

\* C22 witness: channel 0 processed and snapshot, channel 3 processed, channel
\* 0 snapshot again: the second snapshot repeats a nonzero amplitude, bank 3
\* differs from its reset state and the last bank is still in it
C22_Witness ==
    /\ steps = <<<<"process", 0>>, <<"snapshot", 0>>, <<"process", 3>>, <<"snapshot", 0>>>>
    /\ \E b \in Bands : band_amplitude[0][b] # 0
    /\ band_amplitude[0] = SnapshotAmplitude(band_processors[0])
    /\ band_processors[3] # LockInReset
    /\ band_processors[CHANNEL_COUNT - 1] = LockInReset

\* the cursor of every bank after k process calls since reset: k mod 250,
\* an index of the 250-entry tables, the same in all 8 banks
CursorAfter(k) ==
    \A ch \in Channels :
        /\ band_processors[ch].index_ = k % WINDOW
        /\ band_processors[ch].index_ \in 0 .. (WINDOW - 1)
        /\ band_processors[ch].index_ = band_processors[0].index_

\* C23: for each lock-in bank, after reset and k process calls the cursor is
\* k mod 250; it is always in 0..249, so every table read is inside the
\* tables; reset leaves it at 0; the cursors of all 8 channels are equal
\* between loop iterations
C23_CursorInRange ==
    /\ LockInReset.index_ = 0
    /\ CursorAfter(fed)

\* C23 witness: 251 process calls on every channel; the cursor has wrapped
\* and stands at 1
C23_Witness ==
    /\ fed = WINDOW + 1
    /\ \A ch \in Channels : band_processors[ch].index_ = 1

\* fingerprint digit 17 as the packet holds it: the low nibble of payload
\* byte 352, the ninth byte of the digit section
Digit17In(p) == DigitSection(p.digits)[9] % 16

\* the stage byte of the packet: payload offset 368, the fifteenth byte after
\* the digit section
StageByteIn(p) == TailSection(p)[15]

\* C24: in every emitted packet fingerprint digit 17 (low nibble of payload
\* byte 352) equals the stage byte (payload offset 368) modulo 10, also in
\* the packets emitted between a stage transition and the next compose
C24_StageAgrees ==
    packet_counter > 0 => Digit17In(packet_buffer) = StageByteIn(packet_buffer) % 10

\* C24 witness: a packet emitted after the transition to stage 2 and before
\* the next compose: its stage byte is 2, its digit 17 is the 1 of the last
\* compose
C24_Witness ==
    /\ packet_counter > 0
    /\ calls > 0
    /\ stage_hint_arg = 1
    /\ packet_buffer.timestamp_ms = millis
    /\ packet_buffer.timestamp_ms > last_sigprint_ms
    /\ StageByteIn(packet_buffer) = 2
    /\ Digit17In(packet_buffer) = 1

\* the history slots that statement stmt of band b read or wrote in the last
\* compose call
SlotsOf(stmt, b) ==
    {order[i][3] : i \in {j \in 1 .. Len(order) : order[j][1] = stmt /\ order[j][2] = b}}

\* head and fill count of every band after n compose calls
RingAfter(n) ==
    \A b \in Bands :
        /\ sigprint_composer.history_index_[b] = n % HISTORY_WINDOW
        /\ sigprint_composer.history_fill_count_[b] = Min2(n, HISTORY_WINDOW)
        /\ sigprint_composer.history_index_[b] = sigprint_composer.history_index_[0]
        /\ sigprint_composer.history_fill_count_[b]
               = sigprint_composer.history_fill_count_[0]

\* the history accesses of the last compose call are inside the 64 slots,
\* one write per band, and no band reads the slot it wrote
RingAccesses ==
    \A b \in Bands :
        /\ DOMAIN sigprint_composer.history_[b] = 0 .. (HISTORY_WINDOW - 1)
        /\ SlotsOf("history_store", b) \subseteq 0 .. (HISTORY_WINDOW - 1)
        /\ SlotsOf("loop_compare", b) \subseteq 0 .. (HISTORY_WINDOW - 1)
        /\ SlotsOf("history_store", b) \cap SlotsOf("loop_compare", b) = {}
        /\ calls > 0 =>
               SlotsOf("history_store", b) = {(calls - 1) % HISTORY_WINDOW}

\* C25: after n compose calls every band's head index is n mod 64 and its
\* fill count min(n, 64); the five bands have equal heads and fill counts;
\* every history read and write uses an index in 0..63; the slot read as
\* loop reference is never the slot written in the same call
C25_RingBuffer == RingAfter(calls) /\ RingAccesses

\* C25 witness: the 70th compose call, after the head has wrapped and the
\* fill count has saturated: it wrote slot 5 and read slot 49
C25_Witness ==
    /\ calls = 70
    /\ \A b \in Bands :
           /\ sigprint_composer.history_index_[b] = 6
           /\ sigprint_composer.history_fill_count_[b] = HISTORY_WINDOW
           /\ SlotsOf("history_store", b) = {5}
           /\ SlotsOf("loop_compare", b) = {49}

\* 1 when the condition holds, else 0
Count(cond) == IF cond THEN 1 ELSE 0

\* the frames read, the read in progress and the interrupt pending after
\* the last clear are all distinct firings of onDataReady
DistinctInterrupts ==
    fed + Count(loop_pc \in {"clear", "transfer"})
        + Count(g_data_ready /\ loop_pc # "clear") <= interrupts

\* at most one frame is read and processed in one iteration of loop()
OneFramePerIteration ==
    fed <= iterations + Count(loop_pc = "millis" /\ steps # <<>>)

\* the flag is cleared only by line 560 of a readFrame that returns true
ClearedByReadFrame ==
    (g_data_ready /\ ~g_data_ready') => (loop_pc = "clear" /\ loop_pc' = "transfer")

\* with an interrupt pending, available() is followed by the readFrame call,
\* and the test of readFrame by its clear and its transfer: the next
\* readFrame call returns true
ServedByReadFrame ==
    (g_data_ready /\ loop_pc' # loop_pc) =>
        /\ loop_pc = "available" => loop_pc' = "readFrame"
        /\ loop_pc = "readFrame" => loop_pc' = "clear"
        /\ loop_pc = "clear" => loop_pc' = "transfer"

\* C26: under every interleaving of the data-ready interrupt with loop(),
\* the readFrame calls that return true never outnumber the firings of
\* onDataReady and each consumes a distinct one, at most one frame is read
\* and processed per loop iteration, and an interrupt that fires after
\* readFrame has cleared the flag stays pending until the next readFrame
\* call, which passes its test and serves it
C26_InterruptServed ==
    /\ [](fed <= interrupts /\ DistinctInterrupts /\ OneFramePerIteration)
    /\ [][ClearedByReadFrame /\ ServedByReadFrame]_vars

\* C26 witness: loop() has run without an interrupt, then two firings and
\* two frames read in the next two iterations, the second frame just
\* processed and no interrupt pending
C26_Witness ==
    /\ interrupts = 2
    /\ fed = 2
    /\ iterations = 2
    /\ loop_pc = "millis"
    /\ steps = <<"readFrame", "process">>
    /\ ~g_data_ready
    /\ last_raw = readFrame(scenario, 1)

\* the stage after stage in the rotation: 6 goes to 1
NextInRotation(stage) == IF stage = Len(kStageFrequencies) THEN 1 ELSE stage + 1

\* a change of stage_state is made by updateStage in an iteration of loop(),
\* goes to the next stage, records the time of the iteration and comes at
\* least 15000 ms after the change (or the end of setup) before it
StageChange ==
    stage_state' # stage_state =>
        /\ iterations' = iterations + 1
        /\ stage_state' = updateStage(stage_state, millis')
        /\ stage_state'.stage = NextInRotation(stage_state.stage)
        /\ stage_state'.last_transition_ms = millis'
        /\ stage_state'.last_transition_ms - stage_state.last_transition_ms
               >= STAGE_HOLD_MS

\* the stage is one of 1..6, and the stage frequency of the packet is the
\* table entry of its stage, not 0
StageInTable ==
    /\ stage_state.stage \in 1 .. Len(kStageFrequencies)
    /\ packet_counter > 0 =>
           /\ packet_buffer.stage \in 1 .. Len(kStageFrequencies)
           /\ packet_buffer.zipper_freq_hz = kStageFrequencies[packet_buffer.stage]
           /\ packet_buffer.zipper_freq_hz # 0

\* C27: after setup stage_state.stage is in 1..6 in every reachable state, so
\* every packet's stage frequency is an entry of the table and never 0; the
\* stage changes only in updateStage, each change goes to the next stage (6
\* goes to 1), and two changes are at least 15000 ms apart
C27_StageRotation == [](StageInTable) /\ [][StageChange]_vars

\* C27 witness: the sixth change, from stage 6 to stage 1: the packet of
\* that iteration carries stage 6 and 22222
C27_Witness ==
    /\ stage_state.stage = 1
    /\ stage_state.last_transition_ms >= 6 * STAGE_HOLD_MS
    /\ stage_state.last_transition_ms = millis
    /\ packet_buffer.timestamp_ms = millis
    /\ packet_buffer.stage = 6
    /\ packet_buffer.zipper_freq_hz = 22222

\* the call name is among the calls of the iteration just made
CalledNow(name) == \E i \in 1 .. Len(steps') : steps'[i] = name

\* an iteration of loop() sends a packet exactly when 40 ms or more have
\* passed since the packet before, composes exactly when it sends a packet
\* and 1000 ms or more have passed since the compose before, and changes the
\* stage exactly when 15000 ms or more have passed since the change before;
\* each records the time of the iteration. Times are the two's complement
\* readings, which keep their order and their differences across the wrap
DueWhenElapsed ==
    iterations' = iterations + 1 =>
        LET packet_due == millis' - last_packet_ms >= PACKET_INTERVAL_MS
            compose_due == packet_due
                               /\ millis' - last_sigprint_ms >= SIGPRINT_INTERVAL_MS
            stage_due == millis' - stage_state.last_transition_ms >= STAGE_HOLD_MS
        IN  /\ CalledNow("encodePacket") <=> packet_due
            /\ last_packet_ms' = IF packet_due THEN millis' ELSE last_packet_ms
            /\ packet_due => packet_buffer'.timestamp_ms = millis'
            /\ CalledNow("compose") <=> compose_due
            /\ last_sigprint_ms' = IF compose_due THEN millis' ELSE last_sigprint_ms
            /\ (stage_state' # stage_state) <=> stage_due
            /\ stage_due => /\ stage_state'.stage = NextInRotation(stage_state.stage)
                            /\ stage_state'.last_transition_ms = millis'

\* C28: with millis() wrapping around between two packets, two composes and
\* two stage changes, each of the three is made in the first iteration in
\* which its interval has elapsed since the one before (the compose, in the
\* first such packet tick), and in no iteration before it
C28_WrapAround == [][DueWhenElapsed]_vars

\* C28 witness: after the wrap, a packet 40 ms after the packet sent before
\* the wrap, with a compose and a stage change whose predecessors were also
\* before the wrap
C28_Witness ==
    /\ millis >= 0
    /\ packet_ms[2] < 0
    /\ packet_ms[3] = millis
    /\ packet_ms[3] - packet_ms[2] = PACKET_INTERVAL_MS
    /\ packet_buffer.timestamp_ms = millis
    /\ compose_ms[1] < 0
    /\ compose_ms[2] = millis
    /\ compose_ms[2] - compose_ms[1] = SIGPRINT_INTERVAL_MS
    /\ stage_state.last_transition_ms = millis
    /\ packet_buffer.stage # stage_state.stage

=============================================================================
